---- MODULE Spec2Model ----
(***************************************************************************)
(* Scoped database sessions of python-context-async-perations-0x02:        *)
(* the class-based context managers DatabaseConnection (a live cursor for  *)
(* manual statements) and ExecuteQuery (one statement run during entry),   *)
(* driven by Python's `with` protocol against an sqlite3 store             *)
(* (specification Spec); the two aiosqlite fetches that fetch_concurrently *)
(* runs under asyncio.gather (specification SpecAsync); and the signal     *)
(* handlers of the messaging app of Django-signals_orm-0x04                *)
(* (specification SpecMessaging).                                          *)
(***************************************************************************)
EXTENDS Integers, Sequences, FiniteSets, TLC

\* ------------------------------------------------------------------------
\* Bounds
\* ------------------------------------------------------------------------

\* most statements a scope body issues on the handle of a DatabaseConnection
MaxBodyStmts == 2

\* ------------------------------------------------------------------------
\* The store: the users table of setup_sample_database.
\* A row is <<id, name, email, age>>, as sqlite3 returns it for SELECT *.
\* ------------------------------------------------------------------------

\* sample_users of 0-databaseconnection.py (4 users)
SampleUsers4 ==
    << <<"John Doe", "john.doe@example.com", 30>>,
       <<"Jane Smith", "jane.smith@example.com", 25>>,
       <<"Bob Johnson", "bob.johnson@example.com", 35>>,
       <<"Alice Brown", "alice.brown@example.com", 28>> >>

\* sample_users of 1-execute.py (8 users)
SampleUsers8 ==
    << <<"John Doe", "john.doe@example.com", 30>>,
       <<"Jane Smith", "jane.smith@example.com", 25>>,
       <<"Bob Johnson", "bob.johnson@example.com", 35>>,
       <<"Alice Brown", "alice.brown@example.com", 28>>,
       <<"Charlie Wilson", "charlie.wilson@example.com", 22>>,
       <<"Diana Miller", "diana.miller@example.com", 40>>,
       <<"Eve Davis", "eve.davis@example.com", 26>>,
       <<"Frank Garcia", "frank.garcia@example.com", 33>> >>

\* INSERT of one user into a table: id is AUTOINCREMENT, email is UNIQUE
\* (INSERT OR IGNORE skips a row whose email is already present)
InsertOrIgnore(rows, u) ==
    IF \E i \in 1..Len(rows) : rows[i][3] = u[2]
    THEN rows
    ELSE Append(rows, <<Len(rows) + 1, u[1], u[2], u[3]>>)

RECURSIVE ExecuteMany(_, _)
ExecuteMany(rows, users) ==
    IF users = << >> THEN rows
    ELSE ExecuteMany(InsertOrIgnore(rows, Head(users)), Tail(users))

\* the table after setup_sample_database ran on a fresh file
setup_sample_database(sample_users) == ExecuteMany(<< >>, sample_users)

Ages(rows) == [i \in 1..Len(rows) |-> rows[i][4]]

\* ------------------------------------------------------------------------
\* Statements.  A statement is its text split where the code and sqlite3
\* look at it: surrounding whitespace, the first word as written, the
\* WHERE clause, and the literal row of an INSERT.
\* ------------------------------------------------------------------------

Stmt(ws, verb, where, values) ==
    [ws |-> ws, verb |-> verb, where |-> where, values |-> values]

\* "SELECT * FROM users WHERE age > ?"
QAgeGt == Stmt(FALSE, "SELECT", "age > ?", << >>)
\* "SELECT * FROM users WHERE age = ?"
QAgeEq == Stmt(FALSE, "SELECT", "age = ?", << >>)
\* "SELECT * FROM users"
QAll == Stmt(FALSE, "SELECT", "", << >>)
\* "  select * from users\n"
QAllLower == Stmt(TRUE, "select", "", << >>)
\* "WITH o AS (SELECT * FROM users WHERE age > ?) SELECT * FROM o"
QWith == Stmt(FALSE, "WITH", "age > ?", << >>)
\* "INSERT INTO users (name, email, age) VALUES ('Zed', 'zed@example.com', 31)"
QInsertZed == Stmt(FALSE, "INSERT", "", <<"Zed", "zed@example.com", 31>>)
\* "INSERT INTO users (name, email, age) VALUES ('Yan', 'yan@example.com', 24)"
QInsertYan == Stmt(FALSE, "INSERT", "", <<"Yan", "yan@example.com", 24>>)
\* "UPDATE users SET age = age + 1 WHERE age > ?"
QUpdate == Stmt(FALSE, "UPDATE", "age > ?", << >>)
\* "CREATE TABLE IF NOT EXISTS users (...)"
QCreate == Stmt(FALSE, "CREATE", "", << >>)
\* "SELEC * FROM users"
QBad == Stmt(FALSE, "SELEC", "", << >>)

\* statements a session is constructed with
Queries ==
    {QAgeGt, QAgeEq, QAll, QAllLower, QWith, QInsertZed, QUpdate, QCreate, QBad}

\* statements a scope body issues on the cursor of a DatabaseConnection
BodyQueries == {QAll, QAgeGt, QInsertZed, QInsertYan, QUpdate, QBad}

\* bind values: parameters=None becomes (), otherwise a 1-tuple of an age
ParameterSets == {<< >>, <<25>>, <<30>>}

\* str.upper() on the first word
Upper(w) ==
    CASE w = "select" -> "SELECT"
      [] w = "with" -> "WITH"
      [] w = "insert" -> "INSERT"
      [] w = "update" -> "UPDATE"
      [] w = "create" -> "CREATE"
      [] OTHER -> w

\* str.strip() removes the surrounding whitespace
Strip(q) == [q EXCEPT !.ws = FALSE]

UpperStmt(q) == [q EXCEPT !.verb = Upper(q.verb)]

\* str.startswith('SELECT'): nothing before the first word, which is SELECT
StartsWithSELECT(q) == ~q.ws /\ q.verb = "SELECT"

\* self.query.strip().upper().startswith('SELECT')
IsSelectQuery(q) == StartsWithSELECT(UpperStmt(Strip(q)))

\* ------------------------------------------------------------------------
\* Faults
\* ------------------------------------------------------------------------

Fault(kind, msg, origin) == [kind |-> kind, msg |-> msg, origin |-> origin]

NoFault == Fault("None", "", "")

\* sqlite3.connect on a path that cannot be opened
ConnectFault ==
    Fault("sqlite3.OperationalError", "unable to open database file", "connect")
SyntaxFault ==
    Fault("sqlite3.OperationalError", "syntax error", "execute")
BindingFault ==
    Fault("sqlite3.ProgrammingError", "Incorrect number of bindings supplied", "execute")
UniqueFault ==
    Fault("sqlite3.IntegrityError", "UNIQUE constraint failed: users.email", "execute")
\* COMMIT while another connection holds a lock on the file
CommitFault ==
    Fault("sqlite3.OperationalError", "database is locked", "commit")
RollbackFault ==
    Fault("sqlite3.OperationalError", "disk I/O error", "rollback")

\* faults the caller's own code raises inside the scope body
BodyFaults ==
    { Fault("ValueError", "boom", "body"),
      Fault("sqlite3.OperationalError", "database is locked", "body") }

\* ------------------------------------------------------------------------
\* sqlite3: what cursor.execute does with a statement on the connection's
\* view of the table
\* ------------------------------------------------------------------------

\* SQL keywords are case-insensitive and leading whitespace is skipped
Verb(q) == Upper(q.verb)

IsRead(q) == Verb(q) \in {"SELECT", "WITH"}
IsDML(q) == Verb(q) \in {"INSERT", "UPDATE"}
IsDDL(q) == Verb(q) = "CREATE"
Parses(q) == IsRead(q) \/ IsDML(q) \/ IsDDL(q)

\* number of ? placeholders in the statement
Placeholders(q) == IF q.where = "" THEN 0 ELSE 1

\* the WHERE clause with its bind value, on one row
Matches(where, params, r) ==
    CASE where = "" -> TRUE
      [] where = "age > ?" -> r[4] > params[1]
      [] where = "age = ?" -> r[4] = params[1]

\* mutant: the comparison of "age > ?" taken as >=
SelectRows_Ge(q, params, rows) ==
    SelectSeq(rows, LAMBDA r : IF q.where = "age > ?" THEN r[4] >= params[1]
                                ELSE Matches(q.where, params, r))

\* rows a read statement produces, in rowid order
SelectRows(q, params, rows) ==
    SelectSeq(rows, LAMBDA r : Matches(q.where, params, r))

\* UPDATE users SET age = age + 1 WHERE ...
UpdateRows(q, params, rows) ==
    [i \in 1..Len(rows) |->
        IF Matches(q.where, params, rows[i])
        THEN <<rows[i][1], rows[i][2], rows[i][3], rows[i][4] + 1>>
        ELSE rows[i]]

EmailTaken(rows, email) == \E i \in 1..Len(rows) : rows[i][3] = email

\* plain INSERT: the next AUTOINCREMENT id
InsertRow(rows, u) == Append(rows, <<Len(rows) + 1, u[1], u[2], u[3]>>)

ExecResult(fault, rows, resultset, rowcount, begins) ==
    [fault |-> fault, rows |-> rows, resultset |-> resultset,
     rowcount |-> rowcount, begins |-> begins]

\* cursor.execute(q, params) on a connection whose view of the table is rows.
\* The legacy transaction control of the sqlite3 module opens a transaction
\* before a DML statement runs; rowcount is the number of modified rows for
\* DML and -1 for every other statement.
CursorExecute(q, params, rows) ==
    IF ~Parses(q) THEN ExecResult(SyntaxFault, rows, << >>, -1, FALSE)
    ELSE IF Placeholders(q) # Len(params)
    THEN ExecResult(BindingFault, rows, << >>, -1, IsDML(q))
    ELSE IF IsRead(q)
    THEN ExecResult(NoFault, rows, SelectRows(q, params, rows), -1, FALSE)
    ELSE IF Verb(q) = "INSERT"
    THEN IF EmailTaken(rows, q.values[2])
         THEN ExecResult(UniqueFault, rows, << >>, -1, TRUE)
         ELSE ExecResult(NoFault, InsertRow(rows, q.values), << >>, 1, TRUE)
    ELSE IF Verb(q) = "UPDATE"
    THEN ExecResult(NoFault, UpdateRows(q, params, rows), << >>,
                    Len(SelectRows(q, params, rows)), TRUE)
    ELSE ExecResult(NoFault, rows, << >>, -1, FALSE)

\* cursor.fetchall(): every row of the pending result set, as a list
fetchall(resultset) == resultset

\* ------------------------------------------------------------------------
\* The value ExecuteQuery keeps in self.results
\* ------------------------------------------------------------------------

NoResults == [tag |-> "None", rows |-> << >>, count |-> 0]
ListResult(rows) == [tag |-> "list", rows |-> rows, count |-> 0]
IntResult(n) == [tag |-> "int", rows |-> << >>, count |-> n]

\* ------------------------------------------------------------------------
\* State
\* ------------------------------------------------------------------------

VARIABLES
    kind,        \* class of the context manager
    query,       \* self.query (ExecuteQuery)
    parameters,  \* self.parameters (ExecuteQuery)
    connection,  \* self.connection: "None", or the connection, "open"/"closed"
    cursor,      \* self.cursor: "None", or the cursor, "open"/"closed"
    results,     \* self.results (ExecuteQuery)
    store,       \* committed rows of the users table in the database file
    work,        \* the rows as the session's connection sees them
    inTxn,       \* connection.in_transaction
    pc,          \* position of the `with` statement
    exc,         \* fault that left the scope body (exc_value of __exit__)
    raised,      \* fault that reached the caller of the `with` statement
    issued,      \* statements the scope body ran on the handle, with binds
    log,         \* calls made on the connection and cursor, in order
    store0,      \* committed rows when the session was constructed
    run,         \* 1 for the first session on the file, 2 for a second one
    first        \* what the first session yielded to its body

\* 3-concurrent.py: fetch_concurrently and its two coroutines, task 1 being
\* async_fetch_users and task 2 async_fetch_older_users
VARIABLES
    phase,            \* fetch_concurrently: "idle", "gathering", "joined", "cancelled"
    apc,              \* the await each coroutine is suspended at
    aconn,            \* conn of each coroutine: "None", "open", "closed"
    acur,             \* cursor of each coroutine: "None", "open", "closed"
    apending,         \* rows the cursor of each coroutine has still to deliver
    aresults,         \* results of each coroutine
    wake,             \* time at which the asyncio.sleep of each coroutine is over
    now,              \* time since the start, in ticks of 50 ms
    doneAt,           \* time at which each coroutine finished
    joinedAt,         \* time at which the await of gather was over
    cancelRequested,  \* the task awaiting gather was cancelled
    acancelledAt,     \* the await at which CancelledError reached each coroutine
    aorder,           \* the coroutines in the order they finished
    all_users,        \* first value returned by fetch_concurrently
    older_users,      \* second value returned by fetch_concurrently
    adb               \* rows of the users table of the file

\* messaging app: the rows of its tables
VARIABLES
    messages,         \* Message rows, by pk
    notifications,    \* Notification rows, in creation order
    histories,        \* MessageHistory rows, in creation order
    response          \* what the last notification view or utility returned

\* Django-Middleware-0x03/chats/middleware.py: RestrictAccessByTimeMiddleware
VARIABLES
    mwHour,           \* datetime.now().hour as the last request read it
    mwPath,           \* request.path of the last request
    mwOutcome,        \* "none", "403" or "passed" (the response of get_response)
    mwCalls           \* number of calls of get_response

\* python-generators-0x00/2-lazy_paginate.py: one generator lazy_paginate
VARIABLES
    pgSize,           \* page_size
    pgOffset,         \* offset
    pgPage,           \* current_page
    pgIdx,            \* number of records of current_page already yielded
    pgPc,             \* "fetch", "loop" (inside the for loop) or "done"
    pgYielded,        \* the records handed to the consumer, in order
    pgFetches         \* the calls of paginate_users, in order

\* messaging/views.py: one call of build_threaded_structure
VARIABLES
    thMessages,       \* messages: the list given, each message its id and the
                      \* id of its parent_message (0 for None)
    thDict,           \* message_dict: the replies of each message, by id
    thRoots,          \* root_messages
    thPc              \* "input" or "built"

\* messaging/signals.py: one deletion of a user
VARIABLES
    delInstance,      \* the User instance given to the pre_delete receivers
    delWrapped,       \* the caller wrapped the delete in transaction.atomic()
    delDb,            \* the tables as the connection of the call sees them
    delDb0,           \* the tables before the call
    delSaved,         \* the tables at the start of the open transaction
    delDepth,         \* number of atomic blocks entered and not left
    delNeedsRollback, \* the open transaction is marked for rollback
    delExc,           \* exception raised and not handled, "none" if none
    delPc             \* position in the call

sessionVars == <<kind, query, parameters, connection, cursor, results, store,
                 work, inTxn, pc, exc, raised, issued, log, store0, run, first>>
asyncVars == <<phase, apc, aconn, acur, apending, aresults, wake, now, doneAt,
               joinedAt, cancelRequested, acancelledAt, aorder, all_users,
               older_users, adb>>
msgVars == <<messages, notifications, histories, response>>
mwVars == <<mwHour, mwPath, mwOutcome, mwCalls>>
pgVars == <<pgSize, pgOffset, pgPage, pgIdx, pgPc, pgYielded, pgFetches>>
thVars == <<thMessages, thDict, thRoots, thPc>>
delVars == <<delInstance, delWrapped, delDb, delDb0, delSaved, delDepth,
             delNeedsRollback, delExc, delPc>>
extraVars == <<mwVars, pgVars, thVars, delVars>>
vars == <<sessionVars, asyncVars, msgVars, extraVars>>

\* asyncio.gather(async_fetch_users(db_path), async_fetch_older_users(db_path))
Tasks == {1, 2}

\* nothing of 3-concurrent.py has run
AsyncIdle ==
    /\ phase = "idle"
    /\ apc = [i \in Tasks |-> "start"]
    /\ aconn = [i \in Tasks |-> "None"]
    /\ acur = [i \in Tasks |-> "None"]
    /\ apending = [i \in Tasks |-> << >>]
    /\ aresults = [i \in Tasks |-> NoResults]
    /\ wake = [i \in Tasks |-> 0]
    /\ now = 0
    /\ doneAt = [i \in Tasks |-> 0]
    /\ joinedAt = 0
    /\ cancelRequested = FALSE
    /\ acancelledAt = [i \in Tasks |-> "none"]
    /\ aorder = << >>
    /\ all_users = NoResults
    /\ older_users = NoResults

\* a response: the view or utility, the user it served, the HTTP status
\* and the number it returned
Response(op, user, status, value) ==
    [op |-> op, user |-> user, status |-> status, value |-> value]

NoResponse == Response("none", "", 0, 0)

\* the middleware has served no request
MwIdle ==
    /\ mwHour = 0
    /\ mwPath = << >>
    /\ mwOutcome = "none"
    /\ mwCalls = 0

\* no generator of lazy_paginate has been advanced
PgIdle ==
    /\ pgSize = 1
    /\ pgOffset = 0
    /\ pgPage = << >>
    /\ pgIdx = 0
    /\ pgPc = "fetch"
    /\ pgYielded = << >>
    /\ pgFetches = << >>

\* build_threaded_structure has not been called
ThIdle ==
    /\ thMessages = << >>
    /\ thDict = << >>
    /\ thRoots = << >>
    /\ thPc = "input"

\* no user is being deleted
DelIdle ==
    /\ delInstance = << >>
    /\ delWrapped = FALSE
    /\ delDb = << >>
    /\ delDb0 = << >>
    /\ delSaved = << >>
    /\ delDepth = 0
    /\ delNeedsRollback = FALSE
    /\ delExc = "none"
    /\ delPc = "idle"

\* nothing outside the sessions, the coroutines and the messaging app has run
ExtraIdle == MwIdle /\ PgIdle /\ ThIdle /\ DelIdle

\* the tables of the messaging app are empty
MsgIdle ==
    /\ messages = << >>
    /\ notifications = << >>
    /\ histories = << >>
    /\ response = NoResponse

Kinds == {"DatabaseConnection", "ExecuteQuery"}

\* __init__ of both classes, on a database file prepared by
\* setup_sample_database.  A DatabaseConnection has no query and no
\* parameters; the two variables hold fixed values for it and are never read.
Init ==
    /\ kind \in Kinds
    /\ query \in (IF kind = "ExecuteQuery" THEN Queries ELSE {QAll})
    /\ parameters \in (IF kind = "ExecuteQuery" THEN ParameterSets ELSE {<< >>})
    /\ connection = "None"
    /\ cursor = "None"
    /\ results = NoResults
    /\ store \in {setup_sample_database(SampleUsers4),
                  setup_sample_database(SampleUsers8)}
    /\ work = store
    /\ inTxn = FALSE
    /\ pc = "new"
    /\ exc = NoFault
    /\ raised = NoFault
    /\ issued = << >>
    /\ log = << >>
    /\ store0 = store
    /\ run = 1
    /\ first = NoResults
    /\ AsyncIdle
    /\ adb = << >>
    /\ MsgIdle
    /\ ExtraIdle

\* no context manager is in use
SessionIdle ==
    /\ kind = "DatabaseConnection"
    /\ query = QAll
    /\ parameters = << >>
    /\ connection = "None"
    /\ cursor = "None"
    /\ results = NoResults
    /\ store = << >>
    /\ work = << >>
    /\ inTxn = FALSE
    /\ pc = "new"
    /\ exc = NoFault
    /\ raised = NoFault
    /\ issued = << >>
    /\ log = << >>
    /\ store0 = << >>
    /\ run = 1
    /\ first = NoResults

\* ------------------------------------------------------------------------
\* __enter__
\* ------------------------------------------------------------------------

EnterResult(conn, cur, res, rows, txn, events, fault) ==
    [connection |-> conn, cursor |-> cur, results |-> res, rows |-> rows,
     inTxn |-> txn, events |-> events, raised |-> fault]

\* mutant: the connect error is printed and swallowed instead of re-raised
DatabaseConnection_enter_Swallow(connectOk, rows) ==
    IF ~connectOk
    THEN EnterResult("None", "None", NoResults, rows, FALSE,
                     <<"connect_failed">>, NoFault)
    ELSE EnterResult("open", "open", NoResults, rows, FALSE,
                     <<"connect", "cursor">>, NoFault)

\* DatabaseConnection.__enter__: connect, take a cursor, return the cursor;
\* an sqlite3.Error of connect is printed and re-raised as it is
DatabaseConnection_enter(connectOk, rows) ==
    IF ~connectOk
    THEN EnterResult("None", "None", NoResults, rows, FALSE,
                     <<"connect_failed">>, ConnectFault)
    ELSE EnterResult("open", "open", NoResults, rows, FALSE,
                     <<"connect", "cursor">>, NoFault)

\* mutant: the transaction is committed right after execute, before the
\* rows are fetched
ExecuteQuery_enter_CommitEarly(connectOk, q, params, rows) ==
    IF ~connectOk
    THEN EnterResult("None", "None", NoResults, rows, FALSE,
                     <<"connect_failed">>, ConnectFault)
    ELSE LET x == IF params # << >> THEN CursorExecute(q, params, rows)
                  ELSE CursorExecute(q, << >>, rows)
         IN  IF x.fault # NoFault
             THEN EnterResult("open", "open", NoResults, x.rows, x.begins,
                              <<"connect", "cursor", "execute_failed">>, x.fault)
             ELSE IF IsSelectQuery(q)
             THEN EnterResult("open", "open", ListResult(fetchall(x.resultset)),
                              x.rows, FALSE,
                              <<"connect", "cursor", "execute", "commit", "fetchall">>,
                              NoFault)
             ELSE EnterResult("open", "open", IntResult(x.rowcount),
                              x.rows, x.begins,
                              <<"connect", "cursor", "execute">>, NoFault)

\* mutant: an error of the statement is wrapped in a generic Exception
ExecuteQuery_enter_WrapError(connectOk, q, params, rows) ==
    IF ~connectOk
    THEN EnterResult("None", "None", NoResults, rows, FALSE,
                     <<"connect_failed">>, ConnectFault)
    ELSE LET x == IF params # << >> THEN CursorExecute(q, params, rows)
                  ELSE CursorExecute(q, << >>, rows)
         IN  IF x.fault # NoFault
             THEN EnterResult("open", "open", NoResults, x.rows, x.begins,
                              <<"connect", "cursor", "execute_failed">>,
                              Fault("Exception", x.fault.msg, "execute"))
             ELSE IF IsSelectQuery(q)
             THEN EnterResult("open", "open", ListResult(fetchall(x.resultset)),
                              x.rows, x.begins,
                              <<"connect", "cursor", "execute", "fetchall">>, NoFault)
             ELSE EnterResult("open", "open", IntResult(x.rowcount),
                              x.rows, x.begins,
                              <<"connect", "cursor", "execute">>, NoFault)

\* ExecuteQuery.__enter__: connect, take a cursor, execute the statement
\* (with the parameters when there are any), keep fetchall() for a
\* statement that starts with SELECT and cursor.rowcount otherwise; every
\* error is printed and re-raised as it is
ExecuteQuery_enter(connectOk, q, params, rows) ==
    IF ~connectOk
    THEN EnterResult("None", "None", NoResults, rows, FALSE,
                     <<"connect_failed">>, ConnectFault)
    ELSE LET x == IF params # << >> THEN CursorExecute(q, params, rows)
                  ELSE CursorExecute(q, << >>, rows)
         IN  IF x.fault # NoFault
             THEN EnterResult("open", "open", NoResults, x.rows, x.begins,
                              <<"connect", "cursor", "execute_failed">>, x.fault)
             ELSE IF IsSelectQuery(q)
             THEN EnterResult("open", "open", ListResult(fetchall(x.resultset)),
                              x.rows, x.begins,
                              <<"connect", "cursor", "execute", "fetchall">>, NoFault)
             ELSE EnterResult("open", "open", IntResult(x.rowcount),
                              x.rows, x.begins,
                              <<"connect", "cursor", "execute">>, NoFault)

\* ------------------------------------------------------------------------
\* __exit__
\* ------------------------------------------------------------------------

ExitResult(conn, cur, persisted, events, fault) ==
    [connection |-> conn, cursor |-> cur, persisted |-> persisted,
     events |-> events, raised |-> fault]

\* events of closing the cursor, when there is one
CursorClose(cur) == IF cur # "None" THEN <<"cursor.close">> ELSE << >>
CursorAfter(cur) == IF cur # "None" THEN "closed" ELSE cur

\* mutant: the test on exc_type inverted
DatabaseConnection_exit_Inverted(cur, conn, ex, stepOk) ==
    IF conn = "None"
    THEN ExitResult(conn, CursorAfter(cur), "none", CursorClose(cur), ex)
    ELSE IF ex # NoFault
    THEN IF stepOk
         THEN ExitResult("closed", CursorAfter(cur), "commit",
                         CursorClose(cur) \o <<"commit", "close">>, ex)
         ELSE ExitResult(conn, CursorAfter(cur), "none",
                         CursorClose(cur) \o <<"commit_failed">>, CommitFault)
    ELSE IF stepOk
         THEN ExitResult("closed", CursorAfter(cur), "rollback",
                         CursorClose(cur) \o <<"rollback", "close">>, ex)
         ELSE ExitResult(conn, CursorAfter(cur), "none",
                         CursorClose(cur) \o <<"rollback_failed">>, RollbackFault)

\* mutant: the connection is closed before the commit/rollback
DatabaseConnection_exit_CloseFirst(cur, conn, ex, stepOk) ==
    IF conn = "None"
    THEN ExitResult(conn, CursorAfter(cur), "none", CursorClose(cur), ex)
    ELSE IF ex = NoFault
    THEN ExitResult("closed", CursorAfter(cur), "commit",
                    CursorClose(cur) \o <<"close", "commit">>, ex)
    ELSE ExitResult("closed", CursorAfter(cur), "rollback",
                    CursorClose(cur) \o <<"close", "rollback">>, ex)

\* mutant: an error of the rollback is swallowed in favour of the body's
DatabaseConnection_exit_PreferOriginal(cur, conn, ex, stepOk) ==
    IF conn = "None"
    THEN ExitResult(conn, CursorAfter(cur), "none", CursorClose(cur), ex)
    ELSE IF ex = NoFault
    THEN IF stepOk
         THEN ExitResult("closed", CursorAfter(cur), "commit",
                         CursorClose(cur) \o <<"commit", "close">>, ex)
         ELSE ExitResult(conn, CursorAfter(cur), "none",
                         CursorClose(cur) \o <<"commit_failed">>, CommitFault)
    ELSE IF stepOk
         THEN ExitResult("closed", CursorAfter(cur), "rollback",
                         CursorClose(cur) \o <<"rollback", "close">>, ex)
         ELSE ExitResult(conn, CursorAfter(cur), "none",
                         CursorClose(cur) \o <<"rollback_failed">>, ex)

\* mutant: no test that there is a connection; commit()/rollback() on None
\* raises AttributeError
DatabaseConnection_exit_NoGuard(cur, conn, ex, stepOk) ==
    IF conn = "None"
    THEN ExitResult(conn, CursorAfter(cur), "none", CursorClose(cur),
                    Fault("AttributeError",
                          "'NoneType' object has no attribute 'commit'", "exit"))
    ELSE IF ex = NoFault
    THEN IF stepOk
         THEN ExitResult("closed", CursorAfter(cur), "commit",
                         CursorClose(cur) \o <<"commit", "close">>, ex)
         ELSE ExitResult(conn, CursorAfter(cur), "none",
                         CursorClose(cur) \o <<"commit_failed">>, CommitFault)
    ELSE IF stepOk
         THEN ExitResult("closed", CursorAfter(cur), "rollback",
                         CursorClose(cur) \o <<"rollback", "close">>, ex)
         ELSE ExitResult(conn, CursorAfter(cur), "none",
                         CursorClose(cur) \o <<"rollback_failed">>, RollbackFault)

\* DatabaseConnection.__exit__(exc_type, exc_value, traceback): close the
\* cursor; then, when there is a connection, commit if no exception came out
\* of the body and roll back otherwise, and close the connection; return
\* False.  stepOk: whether the commit/rollback call returns (TRUE) or raises.
\* Nothing guards the commit/rollback: when it raises, the close is skipped
\* and its error leaves __exit__.
DatabaseConnection_exit(cur, conn, ex, stepOk) ==
    IF conn = "None"
    THEN ExitResult(conn, CursorAfter(cur), "none", CursorClose(cur), ex)
    ELSE IF ex = NoFault
    THEN IF stepOk
         THEN ExitResult("closed", CursorAfter(cur), "commit",
                         CursorClose(cur) \o <<"commit", "close">>, ex)
         ELSE ExitResult(conn, CursorAfter(cur), "none",
                         CursorClose(cur) \o <<"commit_failed">>, CommitFault)
    ELSE IF stepOk
         THEN ExitResult("closed", CursorAfter(cur), "rollback",
                         CursorClose(cur) \o <<"rollback", "close">>, ex)
         ELSE ExitResult(conn, CursorAfter(cur), "none",
                         CursorClose(cur) \o <<"rollback_failed">>, RollbackFault)

\* ExecuteQuery.__exit__: the same steps as DatabaseConnection.__exit__
ExecuteQuery_exit(cur, conn, ex, stepOk) ==
    IF conn = "None"
    THEN ExitResult(conn, CursorAfter(cur), "none", CursorClose(cur), ex)
    ELSE IF ex = NoFault
    THEN IF stepOk
         THEN ExitResult("closed", CursorAfter(cur), "commit",
                         CursorClose(cur) \o <<"commit", "close">>, ex)
         ELSE ExitResult(conn, CursorAfter(cur), "none",
                         CursorClose(cur) \o <<"commit_failed">>, CommitFault)
    ELSE IF stepOk
         THEN ExitResult("closed", CursorAfter(cur), "rollback",
                         CursorClose(cur) \o <<"rollback", "close">>, ex)
         ELSE ExitResult(conn, CursorAfter(cur), "none",
                         CursorClose(cur) \o <<"rollback_failed">>, RollbackFault)

\* ------------------------------------------------------------------------
\* The `with` statement around a session, as main() of both scripts uses it:
\* __enter__, then the body, then __exit__ with the body's exception.  When
\* __enter__ raises, the body is skipped and __exit__ is not called.
\* ------------------------------------------------------------------------

\* the effect of __enter__ on the session and on the `with` statement
ApplyEnter(r) ==
    /\ connection' = r.connection
    /\ cursor' = r.cursor
    /\ results' = r.results
    /\ work' = r.rows
    /\ inTxn' = r.inTxn
    /\ raised' = r.raised
    /\ IF r.raised # NoFault
       THEN /\ pc' = "done"
            /\ log' = log \o r.events
       ELSE /\ pc' = "body"
            /\ log' = log \o r.events \o <<"body">>
    /\ UNCHANGED <<kind, query, parameters, store, exc, issued, store0,
                   run, first, asyncVars, msgVars, extraVars>>

\* with DatabaseConnection(db_path) as cursor:
EnterDatabaseConnection ==
    /\ pc = "new"
    /\ kind = "DatabaseConnection"
    /\ \E connectOk \in BOOLEAN :
          ApplyEnter(DatabaseConnection_enter(connectOk, work))

\* with ExecuteQuery(db_path, query, parameters) as results:
EnterExecuteQuery ==
    /\ pc = "new"
    /\ kind = "ExecuteQuery"
    /\ \E connectOk \in BOOLEAN :
          ApplyEnter(ExecuteQuery_enter(connectOk, query, parameters, work))

\* the body runs cursor.execute(q, p) on the yielded cursor; an error of the
\* statement leaves the body
BodyExecute(q, p) ==
    /\ pc = "body"
    /\ kind = "DatabaseConnection"
    /\ cursor = "open"
    /\ Len(issued) < MaxBodyStmts
    /\ LET x == CursorExecute(q, p, work)
       IN  /\ work' = x.rows
           /\ inTxn' = (inTxn \/ x.begins)
           /\ IF x.fault # NoFault
              THEN /\ exc' = x.fault
                   /\ pc' = "exit"
                   /\ log' = Append(log, "execute_failed")
                   /\ issued' = issued
              ELSE /\ exc' = exc
                   /\ pc' = pc
                   /\ log' = Append(log, "execute")
                   /\ issued' = Append(issued, <<q, p>>)
    /\ UNCHANGED <<kind, query, parameters, connection, cursor, results,
                   store, raised, store0, run, first, asyncVars, msgVars, extraVars>>

\* the body runs to its end
BodyReturn ==
    /\ pc = "body"
    /\ pc' = "exit"
    /\ exc' = NoFault
    /\ UNCHANGED <<kind, query, parameters, connection, cursor, results,
                   store, work, inTxn, raised, issued, log, store0, run, first,
                   asyncVars, msgVars, extraVars>>

\* the caller's code in the body raises f
BodyRaise(f) ==
    /\ pc = "body"
    /\ pc' = "exit"
    /\ exc' = f
    /\ UNCHANGED <<kind, query, parameters, connection, cursor, results,
                   store, work, inTxn, raised, issued, log, store0, run, first,
                   asyncVars, msgVars, extraVars>>

\* COMMIT and ROLLBACK can only fail when a transaction is open
StepOutcomes == IF inTxn THEN BOOLEAN ELSE {TRUE}

\* mutant: the database file is removed on exit
ApplyExit_RemovesDb(r) ==
    /\ connection' = r.connection
    /\ cursor' = r.cursor
    /\ raised' = r.raised
    /\ log' = log \o r.events
    /\ store' = << >>
    /\ work' = << >>
    /\ inTxn' = FALSE
    /\ pc' = "done"
    /\ UNCHANGED <<kind, query, parameters, results, exc, issued, store0,
                   run, first, asyncVars, msgVars, extraVars>>

\* the effect of __exit__ on the session, the database and the caller
ApplyExit(r) ==
    /\ connection' = r.connection
    /\ cursor' = r.cursor
    /\ raised' = r.raised
    /\ log' = log \o r.events
    /\ store' = IF r.persisted = "commit" THEN work ELSE store
    /\ work' = IF r.persisted = "rollback" THEN store ELSE work
    /\ inTxn' = IF r.persisted = "none" THEN inTxn ELSE FALSE
    /\ pc' = "done"
    /\ UNCHANGED <<kind, query, parameters, results, exc, issued, store0,
                   run, first, asyncVars, msgVars, extraVars>>

ExitDatabaseConnection ==
    /\ pc = "exit"
    /\ kind = "DatabaseConnection"
    /\ \E stepOk \in StepOutcomes :
          ApplyExit(DatabaseConnection_exit(cursor, connection, exc, stepOk))

ExitExecuteQuery ==
    /\ pc = "exit"
    /\ kind = "ExecuteQuery"
    /\ \E stepOk \in StepOutcomes :
          ApplyExit(ExecuteQuery_exit(cursor, connection, exc, stepOk))

\* __exit__(exc_type, exc_value, traceback) called on a session that was
\* constructed and never entered: self.connection and self.cursor are None.
\* The call returns False; only an error of its own steps is raised.
ExitUnentered(ex) ==
    /\ pc = "new"
    /\ connection = "None"
    /\ cursor = "None"
    /\ LET r == IF kind = "DatabaseConnection"
                THEN DatabaseConnection_exit(cursor, connection, ex, TRUE)
                ELSE ExecuteQuery_exit(cursor, connection, ex, TRUE)
       IN  /\ connection' = r.connection
           /\ cursor' = r.cursor
           /\ log' = log \o r.events
           /\ raised' = IF r.raised = ex THEN NoFault ELSE r.raised
    /\ pc' = "released"
    /\ UNCHANGED <<kind, query, parameters, results, store, work, inTxn, exc,
                   issued, store0, run, first, asyncVars, msgVars, extraVars>>

\* a second ExecuteQuery(db_path, query, parameters) on the same file with
\* the same statement and parameters, after the first `with` statement is
\* over (main runs its examples one after the other): a new object, whose
\* connection will see the committed rows
RunAgain ==
    /\ pc = "done"
    /\ kind = "ExecuteQuery"
    /\ run = 1
    /\ run' = 2
    /\ first' = results
    /\ connection' = "None"
    /\ cursor' = "None"
    /\ results' = NoResults
    /\ work' = store
    /\ inTxn' = FALSE
    /\ pc' = "new"
    /\ exc' = NoFault
    /\ raised' = NoFault
    /\ issued' = << >>
    /\ log' = << >>
    /\ store0' = store
    /\ UNCHANGED <<kind, query, parameters, store, asyncVars, msgVars, extraVars>>

Next ==
    \/ EnterDatabaseConnection
    \/ EnterExecuteQuery
    \/ \E q \in BodyQueries, p \in ParameterSets : BodyExecute(q, p)
    \/ BodyReturn
    \/ \E f \in BodyFaults : BodyRaise(f)
    \/ ExitDatabaseConnection
    \/ ExitExecuteQuery
    \/ \E ex \in {NoFault} \cup BodyFaults : ExitUnentered(ex)
    \/ RunAgain

Spec == Init /\ [][Next]_vars

\* ------------------------------------------------------------------------
\* Observations on the log
\* ------------------------------------------------------------------------

Count(e) == Cardinality({i \in 1..Len(log) : log[i] = e})
Happened(e) == \E i \in 1..Len(log) : log[i] = e
Before(a, b) ==
    \A i, j \in 1..Len(log) : (log[i] = a /\ log[j] = b) => i < j

\* the body was entered and ran to its end / raised
BodySucceeded == Happened("body") /\ pc \in {"exit", "done"} /\ exc = NoFault
BodyFaulted == Happened("body") /\ pc \in {"exit", "done"} /\ exc # NoFault

TypeOK ==
    /\ kind \in Kinds
    /\ connection \in {"None", "open", "closed"}
    /\ cursor \in {"None", "open", "closed"}
    /\ pc \in {"new", "body", "exit", "done", "released"}
    /\ run \in {1, 2}
    /\ inTxn \in BOOLEAN
    /\ Len(issued) <= MaxBodyStmts

\* ------------------------------------------------------------------------
\* Properties of a session
\* ------------------------------------------------------------------------

\* C1: for every session whose scope body finishes without raising, once
\* control is back at the caller the connection was committed exactly once
\* and then closed exactly once, the commit before the close, and no
\* rollback happened.
C1_CommitOnceThenCloseOnce ==
    (pc = "done" /\ BodySucceeded) =>
        /\ Count("commit") = 1
        /\ Count("close") = 1
        /\ Before("commit", "close")
        /\ ~Happened("rollback")
        /\ ~Happened("rollback_failed")

\* C2: for every session whose scope body raises, once control is back at
\* the caller the connection was rolled back exactly once and then closed
\* exactly once, in that order, no commit happened, and the fault that
\* reached the caller is the fault the body raised.
C2_RollbackOnceThenCloseOnce ==
    (pc = "done" /\ BodyFaulted) =>
        /\ Count("rollback") = 1
        /\ Count("close") = 1
        /\ Before("rollback", "close")
        /\ ~Happened("commit")
        /\ ~Happened("commit_failed")
        /\ raised = exc

\* C3: on every path on which the connection was opened, it has been closed
\* exactly once when control is back at the caller.
C3_OpenedIsClosedOnReturn ==
    (pc = "done" /\ Happened("connect")) =>
        /\ Count("close") = 1
        /\ connection = "closed"

\* C4: when the commit or the rollback of __exit__ raised, the connection
\* is closed by the time the error has reached the caller.
C4_ClosedAfterFailedRelease ==
    (pc = "done" /\ (Happened("commit_failed") \/ Happened("rollback_failed"))) =>
        connection = "closed"

\* the release steps and the scope body never ran
NothingRan ==
    /\ ~Happened("body")
    /\ ~Happened("commit") /\ ~Happened("commit_failed")
    /\ ~Happened("rollback") /\ ~Happened("rollback_failed")
    /\ ~Happened("close") /\ ~Happened("cursor.close")

LifecycleLog ==
    SelectSeq(log, LAMBDA e : e \in {"connect", "commit", "rollback", "close"})

\* C6: in every reachable state the session's lifecycle is a prefix of
\* unopened -> open -> (committed or rolled_back) -> closed: never both a
\* commit and a rollback, and a closed connection has had its one commit or
\* rollback carried out before the close.
C6_Lifecycle ==
    /\ LifecycleLog \in { << >>, <<"connect">>,
                          <<"connect", "commit">>, <<"connect", "rollback">>,
                          <<"connect", "commit", "close">>,
                          <<"connect", "rollback", "close">> }
    /\ (connection = "None") <=> ~Happened("connect")
    /\ (connection = "closed") <=> Happened("close")
    /\ connection = "closed" => Count("commit") + Count("rollback") = 1

C6_Witness ==
    /\ connection = "closed"
    /\ LifecycleLog = <<"connect", "rollback", "close">>

\* the body ran an INSERT on the handle
InsertIssued == \E i \in 1..Len(issued) : Verb(issued[i][1]) = "INSERT"

\* C7 as stated: if the body performs an INSERT and then raises, then after
\* the scope has exited the store holds exactly the rows it held before the
\* scope, and the body's fault reaches the caller.
C7_InsertThenRaiseLeavesStore ==
    (pc = "done" /\ InsertIssued /\ BodyFaulted) =>
        /\ store = store0
        /\ raised = exc

\* C7 amended: if the body performs an INSERT and then raises, then after
\* the scope has exited the store holds exactly the rows it held before the
\* scope, and a fault reaches the caller: the body's fault, or the error of
\* the rollback when the rollback itself raised.
C7_InsertThenRaiseLeavesStoreAmended ==
    (pc = "done" /\ InsertIssued /\ BodyFaulted) =>
        /\ store = store0
        /\ raised # NoFault
        /\ raised = (IF Happened("rollback_failed") THEN RollbackFault ELSE exc)

C7_Witness ==
    /\ pc = "done"
    /\ InsertIssued
    /\ BodyFaulted
    /\ Happened("rollback")
    /\ raised = exc
    /\ store = store0

\* the table after running the issued statements, in order, on rows
RECURSIVE Replay(_, _)
Replay(stmts, rows) ==
    IF stmts = << >> THEN rows
    ELSE Replay(Tail(stmts),
                CursorExecute(Head(stmts)[1], Head(stmts)[2], rows).rows)

\* number of write statements the body ran
WritesIssued == Cardinality({i \in 1..Len(issued) : IsDML(issued[i][1])})

\* C8: the cursor a DatabaseConnection yields stays usable until the scope
\* exits; no change the body makes through it is in the committed store
\* before the scope exits, and after a normal exit the store holds the
\* changes of all the statements the body issued.
C8_ManualHandleCommitsAtExit ==
    kind = "DatabaseConnection" =>
        /\ pc \in {"body", "exit"} =>
              /\ cursor = "open"
              /\ connection = "open"
              /\ store = store0
        /\ (pc = "done" /\ BodySucceeded /\ raised = NoFault) =>
              store = Replay(issued, store0)

C8_Witness ==
    /\ kind = "DatabaseConnection"
    /\ pc = "done"
    /\ BodySucceeded
    /\ raised = NoFault
    /\ Len(issued) = 2
    /\ WritesIssued = 2
    /\ store = Replay(issued, store0)
    /\ store # store0

\* rows of after that are new or differ from the row of before
AffectedRows(before, after) ==
    (Len(after) - Len(before))
    + Cardinality({i \in 1..Len(before) : after[i] # before[i]})

\* C9: when the body of an ExecuteQuery starts, the yielded value is the
\* complete list of produced rows for every read statement, and the count of
\* affected rows for every write or DDL statement.
C9_ResultsByStatementClass ==
    (kind = "ExecuteQuery" /\ pc = "body") =>
        /\ IsRead(query) =>
              results = ListResult(SelectRows(query, parameters, store0))
        /\ (IsDML(query) \/ IsDDL(query)) =>
              /\ results.tag = "int"
              /\ results.count = AffectedRows(store0, work)

\* scenario A: "SELECT * FROM users WHERE age > ?" with (25,) on the store of
\* 4 users with ages 30, 25, 35 and 28
ScenarioA ==
    /\ kind = "ExecuteQuery"
    /\ query = QAgeGt
    /\ parameters = <<25>>
    /\ store0 = setup_sample_database(SampleUsers4)
    /\ Ages(store0) = <<30, 25, 35, 28>>
    /\ pc = "body"

\* C10 as stated: scenario A returns exactly 2 rows, of ages 30 and 35.
C10_ScenarioATwoRows ==
    ScenarioA =>
        /\ results.tag = "list"
        /\ Len(results.rows) = 2
        /\ Ages(results.rows) = <<30, 35>>

\* C10 amended: scenario A returns exactly 3 rows, of ages 30, 35 and 28
\* (28 is greater than 25 too).
C10_ScenarioAThreeRows ==
    ScenarioA =>
        /\ results.tag = "list"
        /\ Len(results.rows) = 3
        /\ Ages(results.rows) = <<30, 35, 28>>

C10_Witness ==
    /\ ScenarioA
    /\ Len(results.rows) = 3

\* calls that run a statement or read its rows
ExecEvents == {"execute", "execute_failed", "fetchall"}
\* calls that decide the transaction
DecideEvents == {"commit", "commit_failed", "rollback", "rollback_failed"}

C12_RollbackErrorReplacesBodyError ==
    (pc = "done" /\ BodyFaulted /\ Happened("rollback_failed")) =>
        /\ raised = RollbackFault
        /\ raised # exc

C12_Witness ==
    /\ pc = "done"
    /\ BodyFaulted
    /\ Happened("rollback_failed")
    /\ raised.origin = "rollback"
    /\ exc.origin = "body"

\* the error kind the caller is promised for a failed lifecycle step
PromisedKind(origin) ==
    CASE origin = "connect" -> "ConnectionError"
      [] origin = "execute" -> "QueryError"
      [] origin = "commit" -> "CommitError"
      [] OTHER -> "Exception"

C14_ReleaseOfUnacquiredIsNoOp ==
    [][(pc = "new" /\ pc' = "released") =>
          /\ connection = "None" /\ cursor = "None"
          /\ connection' = connection
          /\ cursor' = cursor
          /\ results' = results
          /\ query' = query
          /\ parameters' = parameters
          /\ log' = log
          /\ raised' = NoFault
          /\ store' = store
          /\ work' = work]_vars

C14_Witness ==
    /\ pc = "released"
    /\ connection = "None"
    /\ cursor = "None"
    /\ log = << >>
    /\ raised = NoFault

MaxTime == 4

\* sample_users of 3-concurrent.py (12 users, 4 of them older than 40)
SampleUsers12 ==
    << <<"John Doe", "john.doe@example.com", 30>>,
       <<"Jane Smith", "jane.smith@example.com", 25>>,
       <<"Bob Johnson", "bob.johnson@example.com", 35>>,
       <<"Alice Brown", "alice.brown@example.com", 28>>,
       <<"Charlie Wilson", "charlie.wilson@example.com", 22>>,
       <<"Diana Miller", "diana.miller@example.com", 45>>,
       <<"Eve Davis", "eve.davis@example.com", 26>>,
       <<"Frank Garcia", "frank.garcia@example.com", 33>>,
       <<"Grace Lee", "grace.lee@example.com", 42>>,
       <<"Henry Taylor", "henry.taylor@example.com", 48>>,
       <<"Ivy Chen", "ivy.chen@example.com", 29>>,
       <<"Jack Robinson", "jack.robinson@example.com", 51>> >>

\* statement and bind values of conn.execute in each coroutine
AsyncQuery(i) == IF i = 1 THEN QAll ELSE QAgeGt
AsyncParams(i) == IF i = 1 THEN << >> ELSE <<40>>

\* asyncio.sleep(0.1) and asyncio.sleep(0.15), in ticks of 50 ms
Delay(i) == IF i = 1 THEN 2 ELSE 3

\* the awaits inside the body of the `async with`
BodyPoints == {"sleeping", "executing", "fetching", "closing_cursor"}

\* main: the file is set up, then fetch_concurrently is called
InitAsync ==
    /\ AsyncIdle
    /\ adb = setup_sample_database(SampleUsers12)
    /\ SessionIdle
    /\ MsgIdle
    /\ ExtraIdle

\* fetch_concurrently: gather wraps both coroutines in tasks
FetchConcurrently ==
    /\ phase = "idle"
    /\ phase' = "gathering"
    /\ UNCHANGED <<apc, aconn, acur, apending, aresults, wake, now, doneAt,
                   joinedAt, cancelRequested, acancelledAt, aorder, all_users,
                   older_users, adb, sessionVars, msgVars, extraVars>>

\* mutant: the second coroutine is started when the first has returned
CanStart_Sequential(i) ==
    /\ phase = "gathering"
    /\ (i = 1 \/ apc[1] = "done")

\* gather schedules every awaitable it is given at once
CanStart(i) == phase = "gathering"

\* the coroutine starts and suspends in aiosqlite.connect (__aenter__)
StartFetch(i) ==
    /\ CanStart(i)
    /\ ~cancelRequested
    /\ apc[i] = "start"
    /\ apc' = [apc EXCEPT ![i] = "connecting"]
    /\ UNCHANGED <<phase, aconn, acur, apending, aresults, wake, now, doneAt,
                   joinedAt, cancelRequested, acancelledAt, aorder, all_users,
                   older_users, adb, sessionVars, msgVars, extraVars>>

\* the connection is open; the body starts and suspends in asyncio.sleep
Connected(i) ==
    /\ phase = "gathering"
    /\ ~cancelRequested
    /\ apc[i] = "connecting"
    /\ aconn' = [aconn EXCEPT ![i] = "open"]
    /\ wake' = [wake EXCEPT ![i] = now + Delay(i)]
    /\ apc' = [apc EXCEPT ![i] = "sleeping"]
    /\ UNCHANGED <<phase, acur, apending, aresults, now, doneAt, joinedAt,
                   cancelRequested, acancelledAt, aorder, all_users,
                   older_users, adb, sessionVars, msgVars, extraVars>>

\* the sleep is over; the coroutine suspends in conn.execute
WakeUp(i) ==
    /\ phase = "gathering"
    /\ ~cancelRequested
    /\ apc[i] = "sleeping"
    /\ now >= wake[i]
    /\ apc' = [apc EXCEPT ![i] = "executing"]
    /\ UNCHANGED <<phase, aconn, acur, apending, aresults, wake, now, doneAt,
                   joinedAt, cancelRequested, acancelledAt, aorder, all_users,
                   older_users, adb, sessionVars, msgVars, extraVars>>

\* cursor = await conn.execute(...); the coroutine suspends in fetchall
Executed(i) ==
    /\ phase = "gathering"
    /\ ~cancelRequested
    /\ apc[i] = "executing"
    /\ acur' = [acur EXCEPT ![i] = "open"]
    /\ apending' = [apending EXCEPT
                      ![i] = CursorExecute(AsyncQuery(i), AsyncParams(i), adb).resultset]
    /\ apc' = [apc EXCEPT ![i] = "fetching"]
    /\ UNCHANGED <<phase, aconn, aresults, wake, now, doneAt, joinedAt,
                   cancelRequested, acancelledAt, aorder, all_users,
                   older_users, adb, sessionVars, msgVars, extraVars>>

\* results = await cursor.fetchall(); the coroutine suspends in cursor.close
Fetched(i) ==
    /\ phase = "gathering"
    /\ ~cancelRequested
    /\ apc[i] = "fetching"
    /\ aresults' = [aresults EXCEPT ![i] = ListResult(fetchall(apending[i]))]
    /\ apending' = [apending EXCEPT ![i] = << >>]
    /\ apc' = [apc EXCEPT ![i] = "closing_cursor"]
    /\ UNCHANGED <<phase, aconn, acur, wake, now, doneAt, joinedAt,
                   cancelRequested, acancelledAt, aorder, all_users,
                   older_users, adb, sessionVars, msgVars, extraVars>>

\* the cursor is closed; `return results` leaves the `async with`, whose
\* __aexit__ suspends in conn.close
CursorClosed(i) ==
    /\ phase = "gathering"
    /\ ~cancelRequested
    /\ apc[i] = "closing_cursor"
    /\ acur' = [acur EXCEPT ![i] = "closed"]
    /\ apc' = [apc EXCEPT ![i] = "closing"]
    /\ UNCHANGED <<phase, aconn, apending, aresults, wake, now, doneAt,
                   joinedAt, cancelRequested, acancelledAt, aorder, all_users,
                   older_users, adb, sessionVars, msgVars, extraVars>>

\* the connection is closed; the coroutine returns its results, or raises
\* the CancelledError that made it leave the body
Closed(i) ==
    /\ phase = "gathering"
    /\ apc[i] = "closing"
    /\ (~cancelRequested \/ acancelledAt[i] # "none")
    /\ aconn' = [aconn EXCEPT ![i] = "closed"]
    /\ apc' = [apc EXCEPT
                 ![i] = IF acancelledAt[i] = "none" THEN "done" ELSE "cancelled"]
    /\ doneAt' = [doneAt EXCEPT ![i] = now]
    /\ aorder' = Append(aorder, i)
    /\ UNCHANGED <<phase, acur, apending, aresults, wake, now, joinedAt,
                   cancelRequested, acancelledAt, all_users, older_users, adb,
                   sessionVars, msgVars, extraVars>>

\* mutant: the values of gather in the order the coroutines finished
GatherResults_CompletionOrder == <<aresults[aorder[1]], aresults[aorder[2]]>>

\* the values of gather are in the order of its arguments
GatherResults == <<aresults[1], aresults[2]>>

JoinReady ==
    /\ phase = "gathering"
    /\ ~cancelRequested
    /\ \A i \in Tasks : apc[i] = "done"

\* all_users, older_users = await asyncio.gather(...)
Join ==
    /\ JoinReady
    /\ all_users' = GatherResults[1]
    /\ older_users' = GatherResults[2]
    /\ joinedAt' = now
    /\ phase' = "joined"
    /\ UNCHANGED <<apc, aconn, acur, apending, aresults, wake, now, doneAt,
                   cancelRequested, acancelledAt, aorder, adb, sessionVars,
                   msgVars, extraVars>>

\* time passes: a timer fires when it is due and gather returns as soon as
\* its last coroutine has, the awaits on the database take any time
Tick ==
    /\ phase = "gathering"
    /\ ~JoinReady
    /\ \A i \in Tasks : apc[i] = "sleeping" => now < wake[i]
    /\ (now < MaxTime \/ \E i \in Tasks : apc[i] = "sleeping")
    /\ now' = now + 1
    /\ UNCHANGED <<phase, apc, aconn, acur, apending, aresults, wake, doneAt,
                   joinedAt, cancelRequested, acancelledAt, aorder, all_users,
                   older_users, adb, sessionVars, msgVars, extraVars>>

\* the task awaiting gather is cancelled: gather cancels its coroutines
Cancel ==
    /\ phase = "gathering"
    /\ ~cancelRequested
    /\ cancelRequested' = TRUE
    /\ UNCHANGED <<phase, apc, aconn, acur, apending, aresults, wake, now,
                   doneAt, joinedAt, acancelledAt, aorder, all_users,
                   older_users, adb, sessionVars, msgVars, extraVars>>

CancelOutcome(p, conns) == [pc |-> p, conns |-> conns]

\* mutant: the connection is not released when the body is cancelled
OnCancel_NoRelease(p, conn) ==
    CASE p = "start" -> CancelOutcome("cancelled", {conn})
      [] p = "connecting" -> CancelOutcome("cancelled", {"None", "open"})
      [] p \in BodyPoints -> CancelOutcome("cancelled", {conn})
      [] p = "closing" -> CancelOutcome("cancelled", {"open", "closed"})

\* CancelledError raised at the await the coroutine is suspended at.  It is
\* not an Exception, so `except Exception` lets it pass.  Before the first
\* step nothing has run.  Inside aiosqlite.connect __aenter__ has not
\* returned, so __aexit__ is not called, and the connection thread may have
\* opened the file or not.  Inside the body __aexit__ runs and awaits
\* conn.close().  Inside conn.close() the close is queued on the connection
\* thread and may have run or not.
OnCancel(p, conn) ==
    CASE p = "start" -> CancelOutcome("cancelled", {conn})
      [] p = "connecting" -> CancelOutcome("cancelled", {"None", "open"})
      [] p \in BodyPoints -> CancelOutcome("closing", {conn})
      [] p = "closing" -> CancelOutcome("cancelled", {"open", "closed"})

\* the cancellation reaches coroutine i
DeliverCancel(i) ==
    /\ phase = "gathering"
    /\ cancelRequested
    /\ acancelledAt[i] = "none"
    /\ apc[i] \notin {"done", "cancelled"}
    /\ LET r == OnCancel(apc[i], aconn[i])
       IN  /\ apc' = [apc EXCEPT ![i] = r.pc]
           /\ \E c \in r.conns : aconn' = [aconn EXCEPT ![i] = c]
           /\ IF r.pc = "cancelled"
              THEN /\ doneAt' = [doneAt EXCEPT ![i] = now]
                   /\ aorder' = Append(aorder, i)
              ELSE UNCHANGED <<doneAt, aorder>>
    /\ acancelledAt' = [acancelledAt EXCEPT ![i] = apc[i]]
    /\ UNCHANGED <<phase, acur, apending, aresults, wake, now, joinedAt,
                   cancelRequested, all_users, older_users, adb, sessionVars,
                   msgVars, extraVars>>

\* gather raises CancelledError into fetch_concurrently once every one of
\* its coroutines is done; `except Exception` lets it pass to the caller
PropagateCancel ==
    /\ phase = "gathering"
    /\ cancelRequested
    /\ \A i \in Tasks : apc[i] \in {"done", "cancelled"}
    /\ phase' = "cancelled"
    /\ joinedAt' = now
    /\ UNCHANGED <<apc, aconn, acur, apending, aresults, wake, now, doneAt,
                   cancelRequested, acancelledAt, aorder, all_users,
                   older_users, adb, sessionVars, msgVars, extraVars>>

\* the next step of coroutine i when nothing cancels it
TaskStep(i) ==
    \/ StartFetch(i)
    \/ Connected(i)
    \/ WakeUp(i)
    \/ Executed(i)
    \/ Fetched(i)
    \/ CursorClosed(i)
    \/ Closed(i)

NextAsync ==
    \/ FetchConcurrently
    \/ \E i \in Tasks : StartFetch(i)
    \/ \E i \in Tasks : Connected(i)
    \/ \E i \in Tasks : WakeUp(i)
    \/ \E i \in Tasks : Executed(i)
    \/ \E i \in Tasks : Fetched(i)
    \/ \E i \in Tasks : CursorClosed(i)
    \/ \E i \in Tasks : Closed(i)
    \/ Join
    \/ Tick
    \/ Cancel
    \/ \E i \in Tasks : DeliverCancel(i)
    \/ PropagateCancel

SpecAsync == InitAsync /\ [][NextAsync]_vars

AsyncTypeOK ==
    /\ phase \in {"idle", "gathering", "joined", "cancelled"}
    /\ \A i \in Tasks :
          /\ apc[i] \in {"start", "connecting", "closing", "done", "cancelled"}
                            \cup BodyPoints
          /\ aconn[i] \in {"None", "open", "closed"}
          /\ acur[i] \in {"None", "open", "closed"}
    /\ now \in 0..(MaxTime + Delay(1) + Delay(2))
    /\ Len(aorder) <= 2

Max(a, b) == IF a >= b THEN a ELSE b

\* C16: the two sessions of fetch_concurrently are not serialized: while
\* nothing is cancelled a coroutine can start and can open its connection
\* whatever the state of the other one, and the await of gather is over at
\* the time the later of the two coroutines finished, both connections
\* closed.
C16_SessionsNotSerialized ==
    /\ \A i \in Tasks :
          (phase = "gathering" /\ ~cancelRequested) =>
              /\ apc[i] = "start" => ENABLED StartFetch(i)
              /\ apc[i] = "connecting" => ENABLED Connected(i)
    /\ phase = "joined" =>
          /\ joinedAt = Max(doneAt[1], doneAt[2])
          /\ \A i \in Tasks : aconn[i] = "closed"

\* both connections to the same file are open at once
C16_Witness ==
    /\ phase = "gathering"
    /\ aconn[1] = "open"
    /\ aconn[2] = "open"
    /\ apc[1] \in BodyPoints
    /\ apc[2] \in BodyPoints

\* C17: started together and not cancelled, both fetches complete in every
\* interleaving (no coroutine is ever left without a next step, and gather
\* returns when both are done), and fetch_concurrently returns first all the
\* users and second exactly the users older than 40, whichever coroutine
\* finished first.
C17_BothCompleteInCallOrder ==
    /\ (phase = "gathering" /\ ~cancelRequested) =>
          /\ \A i \in Tasks :
                /\ apc[i] \notin {"done", "sleeping"} => ENABLED TaskStep(i)
                /\ (apc[i] = "sleeping" /\ now >= wake[i]) => ENABLED TaskStep(i)
                /\ (apc[i] = "sleeping" /\ now < wake[i]) =>
                      (ENABLED Tick \/ \E j \in Tasks : ENABLED TaskStep(j))
          /\ JoinReady => ENABLED Join
    /\ phase = "joined" =>
          /\ all_users.tag = "list"
          /\ all_users.rows = adb
          /\ Len(all_users.rows) = 12
          /\ older_users.tag = "list"
          /\ Ages(older_users.rows) = <<45, 42, 48, 51>>
          /\ \A k \in 1..Len(older_users.rows) :
                \E m \in 1..Len(adb) : adb[m] = older_users.rows[k]
          /\ \A m \in 1..Len(adb) :
                adb[m][4] > 40 =>
                    \E k \in 1..Len(older_users.rows) : older_users.rows[k] = adb[m]

\* async_fetch_older_users finished first
C17_Witness ==
    /\ phase = "joined"
    /\ aorder = <<2, 1>>
    /\ Len(all_users.rows) = 12
    /\ Len(older_users.rows) = 4

MaxMessages == 2
\* most Notification rows
MaxNotifications == 3
\* most MessageHistory rows
MaxHistories == 2

\* usernames of the users of the tests
MsgUsers == {"sender", "receiver"}

\* a text is kept as its first 50 characters and its length
Text(first50, len) == [first50 |-> first50, len |-> len]

Contents ==
    { Text("Original content", 16),
      Text("Updated content", 15),
      Text("This is a very long message content that should be", 157) }

\* Message(sender=s, receiver=r, content=c) with the defaults of its fields
Message(s, r, c) ==
    [sender |-> s, receiver |-> r, content |-> c, is_read |-> FALSE,
     edited |-> FALSE]

\* MessageHistory(message, old_content, edited_by)
MessageHistory(pk, old_content, edited_by) ==
    [message |-> pk, old_content |-> old_content, edited_by |-> edited_by]

\* Notification(user, message, notification_type, title, content) with the
\* default of is_read; title and content are the pieces of the f-string
Notification(user, pk, type, title, content) ==
    [user |-> user, message |-> pk, notification_type |-> type,
     title |-> title, content |-> content, is_read |-> FALSE]

\* {content[:50]}{"..." if len(content) > 50 else ""}
Preview(c) == <<c.first50, IF c.len > 50 THEN "..." ELSE "">>

SaveState(instance, hist) == [instance |-> instance, histories |-> hist]

\* pre_save receiver save_message_history; pk = 0 stands for instance.pk
\* None, a pk with no row for Message.DoesNotExist
save_message_history(pk, instance, msgs, hist) ==
    IF pk # 0
    THEN IF pk \in DOMAIN msgs
         THEN IF msgs[pk].content # instance.content
              THEN SaveState([instance EXCEPT !.edited = TRUE],
                             Append(hist, MessageHistory(pk, msgs[pk].content,
                                                         instance.sender)))
              ELSE SaveState(instance, hist)
         ELSE SaveState(instance, hist)
    ELSE SaveState(instance, hist)

\* mutant: the notification is given to the sender
create_message_notification_ToSender(pk, instance, created, notifs) ==
    IF created
    THEN IF instance.sender # instance.receiver
         THEN Append(notifs,
                     Notification(instance.sender, pk, "message",
                                  <<"New message from ", instance.sender>>,
                                  <<instance.sender, " sent you a message: ">>
                                      \o Preview(instance.content)))
         ELSE notifs
    ELSE notifs

\* post_save receiver create_message_notification
create_message_notification(pk, instance, created, notifs) ==
    IF created
    THEN IF instance.sender # instance.receiver
         THEN Append(notifs,
                     Notification(instance.receiver, pk, "message",
                                  <<"New message from ", instance.sender>>,
                                  <<instance.sender, " sent you a message: ">>
                                      \o Preview(instance.content)))
         ELSE notifs
    ELSE notifs

\* Message.get_latest_history: the newest history row of the message, 0 for
\* None
get_latest_history(pk, hist) ==
    LET own == {k \in 1..Len(hist) : hist[k].message = pk}
    IN  IF own = {} THEN 0 ELSE CHOOSE k \in own : \A j \in own : j <= k

\* mutant: no test that sender and receiver differ
create_edit_notification_NoSelfCheck(pk, instance, created, notifs, hist) ==
    IF ~created /\ instance.edited
    THEN LET latest_history == get_latest_history(pk, hist)
         IN  IF latest_history # 0
             THEN Append(notifs,
                         Notification(instance.receiver, pk, "edit",
                                      <<"Message edited by ", instance.sender>>,
                                      <<instance.sender, " edited their message: ">>
                                          \o Preview(instance.content)))
             ELSE notifs
    ELSE notifs

\* post_save receiver create_edit_notification
create_edit_notification(pk, instance, created, notifs, hist) ==
    IF ~created /\ instance.edited
    THEN LET latest_history == get_latest_history(pk, hist)
         IN  IF latest_history # 0 /\ instance.sender # instance.receiver
             THEN Append(notifs,
                         Notification(instance.receiver, pk, "edit",
                                      <<"Message edited by ", instance.sender>>,
                                      <<instance.sender, " edited their message: ">>
                                          \o Preview(instance.content)))
             ELSE notifs
    ELSE notifs

\* the test database is empty
InitMessaging ==
    /\ MsgIdle
    /\ SessionIdle
    /\ AsyncIdle
    /\ adb = << >>
    /\ ExtraIdle

\* Message.objects.create(sender=s, receiver=r, content=c)
CreateMessage(s, r, c) ==
    /\ Len(messages) < MaxMessages
    /\ Len(notifications) < MaxNotifications
    /\ LET pk == Len(messages) + 1
           pre == save_message_history(0, Message(s, r, c), messages, histories)
           n1 == create_message_notification(pk, pre.instance, TRUE, notifications)
           n2 == create_edit_notification(pk, pre.instance, TRUE, n1, pre.histories)
       IN  /\ messages' = Append(messages, pre.instance)
           /\ histories' = pre.histories
           /\ notifications' = n2
    /\ response' = NoResponse
    /\ UNCHANGED <<sessionVars, asyncVars, extraVars>>

\* message.content = c (and message.is_read = True when read); message.save()
SaveMessage(pk, c, read) ==
    /\ pk \in DOMAIN messages
    /\ Len(notifications) < MaxNotifications
    /\ Len(histories) < MaxHistories
    /\ LET changed == [messages[pk] EXCEPT !.content = c,
                                           !.is_read = (@ \/ read)]
           pre == save_message_history(pk, changed, messages, histories)
           n1 == create_message_notification(pk, pre.instance, FALSE, notifications)
           n2 == create_edit_notification(pk, pre.instance, FALSE, n1, pre.histories)
       IN  /\ messages' = [messages EXCEPT ![pk] = pre.instance]
           /\ histories' = pre.histories
           /\ notifications' = n2
    /\ response' = NoResponse
    /\ UNCHANGED <<sessionVars, asyncVars, extraVars>>

NextMessaging ==
    \/ \E s \in MsgUsers, r \in MsgUsers, c \in Contents : CreateMessage(s, r, c)
    \/ \E pk \in 1..MaxMessages, c \in Contents, read \in BOOLEAN :
          SaveMessage(pk, c, read)

SpecMessaging == InitMessaging /\ [][NextMessaging]_vars

MsgTypeOK ==
    /\ Len(messages) <= MaxMessages
    /\ Len(notifications) <= MaxNotifications
    /\ \A k \in 1..Len(notifications) :
          /\ notifications[k].message \in DOMAIN messages
          /\ notifications[k].notification_type \in {"message", "edit"}
    /\ \A k \in 1..Len(histories) : histories[k].message \in DOMAIN messages

C20_ContentUpdateCreatesNoNotification ==
    [][(/\ Len(messages') = Len(messages)
        /\ \E pk \in DOMAIN messages : messages'[pk].content # messages[pk].content) =>
          Len(notifications') = Len(notifications)]_vars

\* C21: no notification is ever linked to a message whose sender and
\* receiver are the same user, neither after its creation nor after any
\* later save of it.
C21_NoNotificationForSelfMessage ==
    \A k \in 1..Len(notifications) :
        messages[notifications[k].message].sender
            # messages[notifications[k].message].receiver

\* a message to oneself that was created and then edited
C21_Witness ==
    /\ Len(messages) = 1
    /\ messages[1].sender = messages[1].receiver
    /\ messages[1].edited
    /\ Len(histories) = 1
    /\ histories[1].message = 1
    /\ notifications = << >>

\* number of 'edit' notifications linked to message pk
EditNotifications(pk) ==
    Cardinality({k \in 1..Len(notifications) :
                    /\ notifications[k].message = pk
                    /\ notifications[k].notification_type = "edit"})

\* number of MessageHistory rows of message pk
HistoryEntries(pk) ==
    Cardinality({k \in 1..Len(histories) : histories[k].message = pk})

\* C25: 'edit' notifications come only from saves that change the content,
\* so a message never has more 'edit' notifications than MessageHistory
\* rows.
C25_EditNotificationsWithinHistory ==
    \A pk \in DOMAIN messages : EditNotifications(pk) <= HistoryEntries(pk)

\* ------------------------------------------------------------------------
\* The notification views and utilities of the messaging app, called by
\* logged-in users between message sends (specification SpecNotifications).
\* ------------------------------------------------------------------------

\* Notification.objects.filter(user=user, is_read=False) on the table
UnreadOf(u, notifs) == SelectSeq(notifs, LAMBDA n : n.user = u /\ ~n.is_read)

UtilResult(notifs, resp) == [notifications |-> notifs, response |-> resp]

\* mutant: the filter on the user is missing
mark_all_notifications_read_AllUsers(u, notifs) ==
    UtilResult([k \in 1..Len(notifs) |-> [notifs[k] EXCEPT !.is_read = TRUE]],
               Response("mark_all", u, 0,
                        Len(SelectSeq(notifs, LAMBDA n : ~n.is_read))))

\* mark_all_notifications_read(user): QuerySet.update(is_read=True) on the
\* unread notifications of the user returns the number of rows it matched
mark_all_notifications_read(u, notifs) ==
    UtilResult([k \in 1..Len(notifs) |->
                   IF notifs[k].user = u /\ ~notifs[k].is_read
                   THEN [notifs[k] EXCEPT !.is_read = TRUE]
                   ELSE notifs[k]],
               Response("mark_all", u, 0, Len(UnreadOf(u, notifs))))

\* mutant: the notification is looked up by id alone
mark_notification_read_AnyUser(u, id, notifs) ==
    IF id \in DOMAIN notifs
    THEN UtilResult([notifs EXCEPT ![id].is_read = TRUE],
                    Response("mark_read", u, 200, id))
    ELSE UtilResult(notifs, Response("mark_read", u, 404, id))

\* view mark_notification_read(request, notification_id):
\* get_object_or_404(Notification, id=notification_id, user=request.user),
\* then is_read = True and save()
mark_notification_read(u, id, notifs) ==
    IF id \in DOMAIN notifs /\ notifs[id].user = u
    THEN UtilResult([notifs EXCEPT ![id].is_read = TRUE],
                    Response("mark_read", u, 200, id))
    ELSE UtilResult(notifs, Response("mark_read", u, 404, id))

\* view unread_notifications_count(request)
unread_notifications_count(u, notifs) ==
    UtilResult(notifs, Response("unread_count", u, 200, Len(UnreadOf(u, notifs))))

ApplyUtil(r) ==
    /\ notifications' = r.notifications
    /\ response' = r.response
    /\ UNCHANGED <<messages, histories, sessionVars, asyncVars, extraVars>>

MarkAllNotificationsRead(u) ==
    ApplyUtil(mark_all_notifications_read(u, notifications))

MarkNotificationRead(u, id) ==
    ApplyUtil(mark_notification_read(u, id, notifications))

UnreadNotificationsCount(u) ==
    ApplyUtil(unread_notifications_count(u, notifications))

NextNotifications ==
    \/ \E s \in MsgUsers, r \in MsgUsers, c \in Contents : CreateMessage(s, r, c)
    \/ \E u \in MsgUsers : MarkAllNotificationsRead(u)
    \/ \E u \in MsgUsers, id \in 1..MaxNotifications : MarkNotificationRead(u, id)
    \/ \E u \in MsgUsers : UnreadNotificationsCount(u)

SpecNotifications == InitMessaging /\ [][NextNotifications]_vars

\* number of unread notifications of user u
UnreadCount(u, notifs) ==
    Cardinality({k \in 1..Len(notifs) : notifs[k].user = u /\ ~notifs[k].is_read})

\* C22: a call of mark_all_notifications_read(user) returns the number of
\* notifications of the user that were unread, leaves the user no unread
\* notification, leaves every notification of the other users as it was,
\* and returns 0 when it directly follows a call for the same user.
C22_MarkAllReadCountsAndFrames ==
    [][response'.op = "mark_all" =>
          LET u == response'.user
          IN  /\ response'.value = UnreadCount(u, notifications)
              /\ Len(notifications') = Len(notifications)
              /\ UnreadCount(u, notifications') = 0
              /\ \A k \in 1..Len(notifications) :
                    notifications[k].user # u =>
                        notifications'[k] = notifications[k]
              /\ (response.op = "mark_all" /\ response.user = u) =>
                    response'.value = 0]_vars

\* the receiver had its unread notification marked, the sender keeps its own
C22_Witness ==
    /\ response = Response("mark_all", "receiver", 0, 1)
    /\ Len(notifications) = 2
    /\ UnreadCount("receiver", notifications) = 0
    /\ UnreadCount("sender", notifications) = 1

\* C23: the unread-count view returns the number of unread notifications of
\* the requesting user and changes nothing; marking one's own unread
\* notification read lowers that number by one; and whatever the request,
\* the read state of a notification changes only on a request of its owner.
C23_UnreadCountAndOwnMarks ==
    [][/\ response'.op = "unread_count" =>
             /\ response'.value = UnreadCount(response'.user, notifications)
             /\ notifications' = notifications
       /\ (response'.op = "mark_read" /\ response'.status = 200) =>
             /\ notifications[response'.value].user = response'.user
             /\ notifications'[response'.value].is_read
             /\ ~notifications[response'.value].is_read =>
                   UnreadCount(response'.user, notifications')
                       = UnreadCount(response'.user, notifications) - 1
       /\ \A k \in 1..Len(notifications) :
             notifications'[k].is_read # notifications[k].is_read =>
                 response'.user = notifications[k].user]_vars

\* the sender was refused the receiver's notification, which is still unread
C23_Witness ==
    /\ response = Response("mark_read", "sender", 404, 1)
    /\ Len(notifications) = 2
    /\ notifications[1].user = "receiver"
    /\ ~notifications[1].is_read
    /\ notifications[2].user = "receiver"
    /\ notifications[2].is_read

\* ------------------------------------------------------------------------
\* Django-Middleware-0x03/chats/middleware.py: RestrictAccessByTimeMiddleware
\* in front of a handler get_response (specification SpecMiddleware).
\* A path is the sequence of its pieces, "/" being a piece of its own, so
\* that str.startswith is the comparison of a prefix.
\* ------------------------------------------------------------------------

\* most calls of get_response
MaxCalls == 2

\* messaging_paths of is_messaging_request
messaging_paths ==
    << <<"/", "messages", "/">>,
       <<"/", "chat", "/">>,
       <<"/", "messaging", "/">>,
       <<"/", "inbox", "/">>,
       <<"/", "conversations", "/">> >>

\* request.path of the requests served
RequestPaths ==
    { <<"/", "messages", "/">>,
      <<"/", "messages", "/", "5", "/">>,
      <<"/", "chat", "/", "room", "/">>,
      <<"/", "messaging", "/">>,
      <<"/", "inbox", "/">>,
      <<"/", "conversations", "/", "1", "/">>,
      <<"/", "messages">>,
      <<"/", "api", "/", "messages", "/">>,
      <<"/", "admin", "/">>,
      <<"/">> }

\* str.startswith
StartsWith(path, prefix) ==
    /\ Len(path) >= Len(prefix)
    /\ SubSeq(path, 1, Len(prefix)) = prefix

\* RestrictAccessByTimeMiddleware.is_messaging_request
is_messaging_request(path) ==
    \E k \in 1..Len(messaging_paths) : StartsWith(path, messaging_paths[k])

\* RestrictAccessByTimeMiddleware.__call__: "403", or "passed" when the
\* response is the one of get_response
RestrictAccessByTime(path, current_hour) ==
    IF is_messaging_request(path)
    THEN IF current_hour >= 22 \/ current_hour < 6 THEN "403" ELSE "passed"
    ELSE "passed"

InitMiddleware ==
    /\ MwIdle
    /\ PgIdle
    /\ ThIdle
    /\ DelIdle
    /\ SessionIdle
    /\ AsyncIdle
    /\ adb = << >>
    /\ MsgIdle

\* a request for path arrives when datetime.now().hour is current_hour
Request(path, current_hour) ==
    /\ mwCalls < MaxCalls
    /\ mwPath' = path
    /\ mwHour' = current_hour
    /\ mwOutcome' = RestrictAccessByTime(path, current_hour)
    /\ mwCalls' = IF mwOutcome' = "passed" THEN mwCalls + 1 ELSE mwCalls
    /\ UNCHANGED <<sessionVars, asyncVars, msgVars, pgVars, thVars, delVars>>

NextMiddleware ==
    \E path \in RequestPaths, current_hour \in (0..23) : Request(path, current_hour)

SpecMiddleware == InitMiddleware /\ [][NextMiddleware]_vars

\* the hours from 9 PM up to and including 5 AM
ClosedHours == {h \in (0..23) : h >= 21 \/ h <= 5}

\* C24: a request to a messaging path is answered 403 without a call of the
\* handler at every hour from 21 up to and including 5 and is passed to the
\* handler at every other hour; a request to another path is always passed
\* to the handler.
C24_MessagingClosedFrom21To5 ==
    [][mwOutcome' # "none" =>
          IF is_messaging_request(mwPath')
          THEN IF mwHour' \in ClosedHours
               THEN mwOutcome' = "403" /\ mwCalls' = mwCalls
               ELSE mwOutcome' = "passed" /\ mwCalls' = mwCalls + 1
          ELSE mwOutcome' = "passed" /\ mwCalls' = mwCalls + 1]_vars

\* ------------------------------------------------------------------------
\* python-generators-0x00/2-lazy_paginate.py: the generator lazy_paginate
\* over paginate_users (specification SpecPaginate).  A user record is kept
\* as its id; name and email are functions of the id.
\* ------------------------------------------------------------------------

\* largest of the small page sizes
MaxPageSize == 4

\* all_users of paginate_users: ids 1 to 100
all_users_100 == [i \in 1..100 |-> [id |-> i]]

Min(a, b) == IF a <= b THEN a ELSE b

\* mutant: the slice takes one record more
paginate_users_Inclusive(page_size, offset) ==
    LET start_idx == offset
        end_idx == Min(offset + page_size + 1, Len(all_users_100))
    IN  IF start_idx >= Len(all_users_100)
        THEN << >>
        ELSE SubSeq(all_users_100, start_idx + 1, end_idx)

\* paginate_users(page_size, offset): all_users[start_idx:end_idx]
paginate_users(page_size, offset) ==
    LET start_idx == offset
        end_idx == Min(offset + page_size, Len(all_users_100))
    IN  IF start_idx >= Len(all_users_100)
        THEN << >>
        ELSE SubSeq(all_users_100, start_idx + 1, end_idx)

\* lazy_paginate(page_size) is called; the generator has not run yet
InitPaginate ==
    /\ pgSize \in (1..MaxPageSize) \cup {50, 100, 101}
    /\ pgOffset = 0
    /\ pgPage = << >>
    /\ pgIdx = 0
    /\ pgPc = "fetch"
    /\ pgYielded = << >>
    /\ pgFetches = << >>
    /\ MwIdle
    /\ ThIdle
    /\ DelIdle
    /\ SessionIdle
    /\ AsyncIdle
    /\ adb = << >>
    /\ MsgIdle

\* current_page = paginate_users(page_size, offset); break when it is empty
FetchPage ==
    /\ pgPc = "fetch"
    /\ pgPage' = paginate_users(pgSize, pgOffset)
    /\ pgIdx' = 0
    /\ pgFetches' = Append(pgFetches, [offset |-> pgOffset,
                                       handed |-> Len(pgYielded),
                                       size |-> Len(pgPage')])
    /\ pgPc' = IF pgPage' = << >> THEN "done" ELSE "loop"
    /\ UNCHANGED <<pgSize, pgOffset, pgYielded, sessionVars, asyncVars,
                   msgVars, mwVars, thVars, delVars>>

\* for user in current_page: yield user
YieldUser ==
    /\ pgPc = "loop"
    /\ pgIdx < Len(pgPage)
    /\ pgYielded' = Append(pgYielded, pgPage[pgIdx + 1])
    /\ pgIdx' = pgIdx + 1
    /\ UNCHANGED <<pgSize, pgOffset, pgPage, pgPc, pgFetches, sessionVars,
                   asyncVars, msgVars, mwVars, thVars, delVars>>

\* the for loop is over: offset += page_size
AdvanceOffset ==
    /\ pgPc = "loop"
    /\ pgIdx = Len(pgPage)
    /\ pgOffset' = pgOffset + pgSize
    /\ pgPc' = "fetch"
    /\ UNCHANGED <<pgSize, pgPage, pgIdx, pgYielded, pgFetches, sessionVars,
                   asyncVars, msgVars, mwVars, thVars, delVars>>

NextPaginate ==
    \/ FetchPage
    \/ YieldUser
    \/ AdvanceOffset

SpecPaginate == InitPaginate /\ [][NextPaginate]_vars

\* C27: for every page_size >= 1 the records handed out are the users 1, 2,
\* 3, ... in this order, each once; the generator always has a next step
\* until it is done, and it is done with all 100 handed out; every page is
\* requested when all records before its offset have been handed out; and
\* the only empty page is the last one requested.
C27_EachUserOnceInOrderThenStop ==
    /\ pgSize >= 1
    /\ \A k \in 1..Len(pgYielded) : pgYielded[k].id = k
    /\ Len(pgYielded) <= 100
    /\ pgPc # "done" => ENABLED NextPaginate
    /\ pgPc = "done" => Len(pgYielded) = 100
    /\ \A k \in 1..Len(pgFetches) :
          /\ pgFetches[k].offset = (k - 1) * pgSize
          /\ pgFetches[k].handed = Min(pgFetches[k].offset, 100)
          /\ pgFetches[k].size = 0 => (k = Len(pgFetches) /\ pgPc = "done")
    /\ pgPc = "done" => pgFetches[Len(pgFetches)].size = 0

\* page_size 3: 34 pages and the empty one
C27_Witness ==
    /\ pgPc = "done"
    /\ pgSize = 3
    /\ Len(pgYielded) = 100
    /\ Len(pgFetches) = 35
    /\ pgFetches[34].size = 1

\* ------------------------------------------------------------------------
\* messaging/views.py: build_threaded_structure on a list of messages
\* (specification SpecThreads).  A message is its id and the id of its
\* parent_message, 0 for None; message_dict maps an id to the list of the
\* ids of its replies, root_messages is the list of the ids of the roots.
\* ------------------------------------------------------------------------

\* largest message id and longest list
MaxThread == 3

\* lists of messages with distinct ids; the parent of a message is None or
\* any other id, in the list or not
ThreadInputs ==
    UNION { { ms \in [1..n -> [id : 1..MaxThread, parent_message : 0..MaxThread]] :
                /\ \A i \in 1..n : ms[i].parent_message # ms[i].id
                /\ \A i, j \in 1..n : i # j => ms[i].id # ms[j].id }
            : n \in 0..MaxThread }

\* message_dict[id] = value
DictSet(dict, id, value) ==
    [k \in (DOMAIN dict) \cup {id} |-> IF k = id THEN value ELSE dict[k]]

\* first loop: an entry with no replies for every message, the messages
\* without parent appended to root_messages
RECURSIVE FirstPass(_, _, _)
FirstPass(msgs, k, st) ==
    IF k > Len(msgs) THEN st
    ELSE FirstPass(msgs, k + 1,
             [message_dict |-> DictSet(st.message_dict, msgs[k].id, << >>),
              root_messages |-> IF msgs[k].parent_message = 0
                                THEN Append(st.root_messages, msgs[k].id)
                                ELSE st.root_messages])

\* second loop: every message with a parent is appended to the replies of
\* the parent's entry, when message_dict.get finds one
RECURSIVE SecondPass(_, _, _)
SecondPass(msgs, k, st) ==
    IF k > Len(msgs) THEN st
    ELSE LET m == msgs[k]
         IN  SecondPass(msgs, k + 1,
                 IF m.parent_message # 0 /\ m.parent_message \in DOMAIN st.message_dict
                 THEN [st EXCEPT !.message_dict =
                          DictSet(@, m.parent_message,
                                  Append(@[m.parent_message], m.id))]
                 ELSE st)

\* build_threaded_structure(messages)
build_threaded_structure(msgs) ==
    SecondPass(msgs, 1, FirstPass(msgs, 1, [message_dict |-> << >>, root_messages |-> << >>]))

InitThreads ==
    /\ thMessages \in ThreadInputs
    /\ thDict = << >>
    /\ thRoots = << >>
    /\ thPc = "input"
    /\ MwIdle
    /\ PgIdle
    /\ DelIdle
    /\ SessionIdle
    /\ AsyncIdle
    /\ adb = << >>
    /\ MsgIdle

\* threaded_messages = build_threaded_structure(thread_messages)
BuildThreadedStructure ==
    /\ thPc = "input"
    /\ LET st == build_threaded_structure(thMessages)
       IN  /\ thDict' = st.message_dict
           /\ thRoots' = st.root_messages
    /\ thPc' = "built"
    /\ UNCHANGED <<thMessages, sessionVars, asyncVars, msgVars, mwVars, pgVars, delVars>>

SpecThreads == InitThreads /\ [][BuildThreadedStructure]_vars

\* number of places of message id in the result: in root_messages and in
\* the replies of the entries
Places(id) ==
    Cardinality({k \in 1..Len(thRoots) : thRoots[k] = id})
    + Cardinality({pk \in {<<p, k>> : p \in DOMAIN thDict, k \in 1..MaxThread} :
                      /\ pk[2] <= Len(thDict[pk[1]])
                      /\ thDict[pk[1]][pk[2]] = id})

\* C28: in the result every message of the list has exactly one place: in
\* root_messages when it has no parent, in the replies of its parent
\* otherwise.
C28_EveryMessagePlacedOnce ==
    thPc = "built" =>
        \A i \in 1..Len(thMessages) :
            LET m == thMessages[i]
            IN  /\ Places(m.id) = 1
                /\ m.parent_message = 0 =>
                      \E k \in 1..Len(thRoots) : thRoots[k] = m.id
                /\ m.parent_message # 0 =>
                      /\ m.parent_message \in DOMAIN thDict
                      /\ \E k \in 1..Len(thDict[m.parent_message]) :
                            thDict[m.parent_message][k] = m.id

\* ------------------------------------------------------------------------
\* messaging/signals.py: deletion of a user (specification SpecDeletion).
\* User.objects.filter(username=...).delete() collects the rows that cascade
\* from the user, then, inside its own transaction.atomic(savepoint=False),
\* sends pre_delete for the collected messages and for the user, deletes the
\* rows and sends post_delete.  send() lets an exception of a receiver
\* through; the receivers of one signal run in the order of their
\* definition.  The atomic blocks inside the receivers are savepoints of the
\* transaction that is already open, and are left without exception.
\* ------------------------------------------------------------------------

\* f"@{username}"
AtName(username) ==
    CASE username = "alice" -> "@alice"
      [] username = "bob" -> "@bob"
      [] username = "carol" -> "@carol"

\* len() of the pieces the contents are made of
StrLen(token) ==
    CASE token = "hello" -> 5
      [] token = " again" -> 6
      [] token = " hi" -> 3
      [] token = "ask " -> 4
      [] token = " or " -> 4
      [] token = "Original content" -> 16
      [] token = "@alice" -> 6
      [] token = "@Alice" -> 6
      [] token = "@bob" -> 4
      [] token = "@carol" -> 6
      [] token = "@deleted_user" -> 13

\* content__icontains=f"@{username}": the comparison ignores case
icontains(content, username) ==
    \E i \in 1..Len(content.first50) :
        \/ content.first50[i] = AtName(username)
        \/ content.first50[i] = "@Alice" /\ username = "alice"

\* content.replace(f"@{username}", "@deleted_user"): exact matches only
replace(content, username) ==
    LET RECURSIVE SumLen(_)
        SumLen(tokens) ==
            IF tokens = << >> THEN 0
            ELSE StrLen(Head(tokens)) + SumLen(Tail(tokens))
        replaced == [i \in 1..Len(content.first50) |->
                        IF content.first50[i] = AtName(username)
                        THEN "@deleted_user"
                        ELSE content.first50[i]]
    IN  Text(replaced, SumLen(replaced))

\* the tables: auth_user, Message by pk, Notification, MessageHistory,
\* UserDeletionLog
Tables(users, msgs, notifs, hist, deletion_log) ==
    [users |-> users, messages |-> msgs, notifications |-> notifs,
     histories |-> hist, deletion_log |-> deletion_log]

\* number of messages a database is filled with
MaxDelMessages == 3

\* the messages a database is filled with: sender, receiver, the content at
\* creation and the content of an edit
DelMessage(pk) ==
    CASE pk = 1 -> [sender |-> "alice", receiver |-> "bob",
                    content |-> Text(<<"hello">>, 5),
                    edit |-> Text(<<"hello", " again">>, 11)]
      [] pk = 2 -> [sender |-> "bob", receiver |-> "alice",
                    content |-> Text(<<"@alice", " hi">>, 9),
                    edit |-> Text(<<"@bob", " hi">>, 7)]
      [] pk = 3 -> [sender |-> "bob", receiver |-> "carol",
                    content |-> Text(<<"ask ", "@alice">>, 10),
                    edit |-> Text(<<"ask ", "@Alice", " or ", "@alice">>, 20)]
      [] OTHER  -> [sender |-> "carol", receiver |-> "bob",
                    content |-> Text(<<"Original content">>, 16),
                    edit |-> Text(<<"@Alice", " hi">>, 9)]

\* instance.save() of the message pk with its signals
SaveInTables(pk, instance, created, db) ==
    LET pre == save_message_history(IF created THEN 0 ELSE pk, instance,
                                    db.messages, db.histories)
        n1 == create_message_notification(pk, pre.instance, created, db.notifications)
        n2 == create_edit_notification(pk, pre.instance, created, n1, pre.histories)
    IN  Tables(db.users,
               [k \in (DOMAIN db.messages) \cup {pk} |->
                   IF k = pk THEN pre.instance ELSE db.messages[k]],
               n2, pre.histories, db.deletion_log)

\* the database after the messages of created were created and those of
\* edited were edited, in the order of their pk
RECURSIVE Populate(_, _, _, _)
Populate(pk, created, edited, db) ==
    IF pk > MaxDelMessages THEN db
    ELSE LET m == DelMessage(pk)
             db1 == IF pk \in created
                    THEN SaveInTables(pk, Message(m.sender, m.receiver, m.content),
                                      TRUE, db)
                    ELSE db
             db2 == IF pk \in created /\ pk \in edited
                    THEN SaveInTables(pk, [db1.messages[pk] EXCEPT !.content = m.edit],
                                      FALSE, db1)
                    ELSE db1
         IN  Populate(pk + 1, created, edited, db2)

\* pre_delete receiver cleanup_message_related_data, for each message of pks
cleanup_message_related_data(pks, db) ==
    LET Other(row) == row.message \notin pks
    IN  Tables(db.users, db.messages,
               SelectSeq(db.notifications, Other),
               SelectSeq(db.histories, Other),
               db.deletion_log)

\* QuerySet.delete() of the messages pks: pre_delete of each, then the rows
\* and the rows that cascade from them
DeleteMessages(pks, db) ==
    LET db1 == cleanup_message_related_data(pks, db)
        Kept(row) == row.message \notin pks
    IN  Tables(db1.users,
               [k \in (DOMAIN db1.messages) \ pks |-> db1.messages[k]],
               SelectSeq(db1.notifications, Kept),
               SelectSeq(db1.histories, Kept),
               db1.deletion_log)

\* the loop of cleanup_orphaned_data over the messages found, newest first
RECURSIVE RewriteMentions(_, _, _)
RewriteMentions(pks, username, db) ==
    IF pks = {} THEN db
    ELSE LET pk == CHOOSE k \in pks : \A j \in pks : j <= k
             message == [db.messages[pk] EXCEPT
                            !.content = replace(@, username)]
         IN  RewriteMentions(pks \ {pk}, username,
                             SaveInTables(pk, message, FALSE, db))

InitDeletion ==
    /\ \E created \in SUBSET (1..MaxDelMessages) : \E edited \in SUBSET created :
          /\ delDb = Populate(1, created, edited,
                              Tables({"alice", "bob", "carol"},
                                     << >>, << >>, << >>, << >>))
          /\ delDb0 = delDb
          /\ delSaved = delDb
    /\ delInstance \in [username : {"alice"}, is_superuser : BOOLEAN,
                        _deletion_protected : BOOLEAN]
    /\ delWrapped \in BOOLEAN
    /\ delDepth = 0
    /\ delNeedsRollback = FALSE
    /\ delExc = "none"
    /\ delPc = "call"
    /\ MwIdle
    /\ PgIdle
    /\ ThIdle
    /\ SessionIdle
    /\ AsyncIdle
    /\ adb = << >>
    /\ MsgIdle

\* [with transaction.atomic():] User.objects.filter(username=username).delete()
\* up to the pre_delete of the user: the atomic blocks are entered and
\* pre_delete is sent for the messages collected from the user
BeginDelete ==
    /\ delPc = "call"
    /\ delDepth' = IF delWrapped THEN 2 ELSE 1
    /\ delSaved' = delDb
    /\ delDb' = cleanup_message_related_data(
                    {pk \in DOMAIN delDb.messages :
                        \/ delDb.messages[pk].sender = delInstance.username
                        \/ delDb.messages[pk].receiver = delInstance.username},
                    delDb)
    /\ delPc' = "log_user_deletion_stats"
    /\ UNCHANGED <<delNeedsRollback, delExc, delInstance, delWrapped, delDb0,
                   sessionVars, asyncVars, msgVars, mwVars, pgVars, thVars>>

\* pre_delete receiver log_user_deletion_stats
log_user_deletion_stats ==
    /\ delPc = "log_user_deletion_stats"
    /\ LET instance == delInstance
           Mine(row) == row.user = instance.username
           MyEdit(row) == row.edited_by = instance.username
       IN  delDb' = [delDb EXCEPT !.deletion_log = Append(@,
               [username |-> instance.username,
                deleted_by |-> "self",
                deletion_reason |-> "",
                messages_sent_count |->
                    Cardinality({pk \in DOMAIN delDb.messages :
                                    delDb.messages[pk].sender = instance.username}),
                messages_received_count |->
                    Cardinality({pk \in DOMAIN delDb.messages :
                                    delDb.messages[pk].receiver = instance.username}),
                notifications_count |-> Len(SelectSeq(delDb.notifications, Mine)),
                message_edits_count |-> Len(SelectSeq(delDb.histories, MyEdit))])]
    /\ delPc' = "cleanup_user_messages_before_deletion"
    /\ UNCHANGED <<delSaved, delDepth, delNeedsRollback, delExc, delInstance,
                   delWrapped, delDb0, sessionVars, asyncVars, msgVars, mwVars,
                   pgVars, thVars>>

\* pre_delete receiver cleanup_user_messages_before_deletion
cleanup_user_messages_before_deletion ==
    /\ delPc = "cleanup_user_messages_before_deletion"
    /\ LET instance == delInstance
           sent_messages == {pk \in DOMAIN delDb.messages :
                                delDb.messages[pk].sender = instance.username}
           db1 == DeleteMessages(sent_messages, delDb)
           received_messages == {pk \in DOMAIN db1.messages :
                                    db1.messages[pk].receiver = instance.username}
       IN  delDb' = DeleteMessages(received_messages, db1)
    /\ delPc' = "cleanup_user_notifications_before_deletion"
    /\ UNCHANGED <<delSaved, delDepth, delNeedsRollback, delExc, delInstance,
                   delWrapped, delDb0, sessionVars, asyncVars, msgVars, mwVars,
                   pgVars, thVars>>

\* pre_delete receiver cleanup_user_notifications_before_deletion
cleanup_user_notifications_before_deletion ==
    /\ delPc = "cleanup_user_notifications_before_deletion"
    /\ LET Other(row) == row.user # delInstance.username
       IN  delDb' = [delDb EXCEPT !.notifications = SelectSeq(@, Other)]
    /\ delPc' = "cleanup_user_message_history_before_deletion"
    /\ UNCHANGED <<delSaved, delDepth, delNeedsRollback, delExc, delInstance,
                   delWrapped, delDb0, sessionVars, asyncVars, msgVars, mwVars,
                   pgVars, thVars>>

\* pre_delete receiver cleanup_user_message_history_before_deletion
cleanup_user_message_history_before_deletion ==
    /\ delPc = "cleanup_user_message_history_before_deletion"
    /\ LET Other(row) == row.edited_by # delInstance.username
       IN  delDb' = [delDb EXCEPT !.histories = SelectSeq(@, Other)]
    /\ delPc' = "cleanup_orphaned_data"
    /\ UNCHANGED <<delSaved, delDepth, delNeedsRollback, delExc, delInstance,
                   delWrapped, delDb0, sessionVars, asyncVars, msgVars, mwVars,
                   pgVars, thVars>>

\* pre_delete receiver cleanup_orphaned_data
cleanup_orphaned_data ==
    /\ delPc = "cleanup_orphaned_data"
    /\ LET messages_mentioning_user ==
               {pk \in DOMAIN delDb.messages :
                   icontains(delDb.messages[pk].content, delInstance.username)}
       IN  delDb' = RewriteMentions(messages_mentioning_user,
                                    delInstance.username, delDb)
    /\ delPc' = "backup_user_data_before_deletion"
    /\ UNCHANGED <<delSaved, delDepth, delNeedsRollback, delExc, delInstance,
                   delWrapped, delDb0, sessionVars, asyncVars, msgVars, mwVars,
                   pgVars, thVars>>

\* pre_delete receiver backup_user_data_before_deletion: it reads the
\* messages and prints, and handles its own exceptions
backup_user_data_before_deletion ==
    /\ delPc = "backup_user_data_before_deletion"
    /\ delPc' = "validate_deletion_permissions"
    /\ UNCHANGED <<delDb, delSaved, delDepth, delNeedsRollback, delExc,
                   delInstance, delWrapped, delDb0, sessionVars, asyncVars,
                   msgVars, mwVars, pgVars, thVars>>

\* mutant: only superusers are refused
validate_deletion_permissions_SuperuserOnly(instance) ==
    IF instance.is_superuser
    THEN "PermissionDenied"
    ELSE "none"

\* pre_delete receiver validate_deletion_permissions: the exception raised
validate_deletion_permissions(instance) ==
    IF instance.is_superuser
    THEN "PermissionDenied"
    ELSE IF instance._deletion_protected
         THEN "PermissionDenied"
         ELSE "none"

\* the last receiver of pre_delete returns or raises
ValidateDeletionPermissions ==
    /\ delPc = "validate_deletion_permissions"
    /\ delExc' = validate_deletion_permissions(delInstance)
    /\ delPc' = IF delExc' = "none" THEN "delete" ELSE "exit"
    /\ UNCHANGED <<delDb, delSaved, delDepth, delNeedsRollback, delInstance,
                   delWrapped, delDb0, sessionVars, asyncVars, msgVars, mwVars,
                   pgVars, thVars>>

\* the user and the rows that cascade from the user are deleted, then the
\* post_delete receiver send_deletion_notification_to_admins notifies the
\* staff (bob)
DeleteRows ==
    /\ delPc = "delete"
    /\ LET u == delInstance.username
           db1 == DeleteMessages({pk \in DOMAIN delDb.messages :
                                     \/ delDb.messages[pk].sender = u
                                     \/ delDb.messages[pk].receiver = u},
                                 delDb)
           Other(row) == row.user # u
           OtherEdit(row) == row.edited_by # u
       IN  delDb' = Tables(db1.users \ {u}, db1.messages,
                           Append(SelectSeq(db1.notifications, Other),
                                  Notification("bob", 0, "system",
                                      <<"User Account Deleted: ", u>>,
                                      <<"User account ", u,
                                        " has been deleted from the system.">>)),
                           SelectSeq(db1.histories, OtherEdit),
                           db1.deletion_log)
    /\ delPc' = "exit"
    /\ UNCHANGED <<delSaved, delDepth, delNeedsRollback, delExc, delInstance,
                   delWrapped, delDb0, sessionVars, asyncVars, msgVars, mwVars,
                   pgVars, thVars>>

\* transaction.atomic().__exit__: the outermost block commits or rolls
\* back, an inner block without savepoint marks the transaction
atomic_exit(db, saved, depth, needs_rollback, exc_type) ==
    IF depth = 1
    THEN IF exc_type # "none" \/ needs_rollback
         THEN [db |-> saved, needs_rollback |-> FALSE]
         ELSE [db |-> db, needs_rollback |-> FALSE]
    ELSE [db |-> db, needs_rollback |-> needs_rollback \/ exc_type # "none"]

\* the innermost atomic block entered is left: that of delete(), then that
\* of the caller
ExitAtomic ==
    /\ delPc = "exit"
    /\ LET out == atomic_exit(delDb, delSaved, delDepth, delNeedsRollback, delExc)
       IN  /\ delDb' = out.db
           /\ delNeedsRollback' = out.needs_rollback
    /\ delDepth' = delDepth - 1
    /\ delPc' = IF delDepth' = 0 THEN "returned" ELSE "exit"
    /\ UNCHANGED <<delSaved, delExc, delInstance, delWrapped, delDb0,
                   sessionVars, asyncVars, msgVars, mwVars, pgVars, thVars>>

NextDeletion ==
    \/ BeginDelete
    \/ log_user_deletion_stats
    \/ cleanup_user_messages_before_deletion
    \/ cleanup_user_notifications_before_deletion
    \/ cleanup_user_message_history_before_deletion
    \/ cleanup_orphaned_data
    \/ backup_user_data_before_deletion
    \/ ValidateDeletionPermissions
    \/ DeleteRows
    \/ ExitAtomic

SpecDeletion == InitDeletion /\ [][NextDeletion]_vars

\* the account is one validate_deletion_permissions refuses to delete
DeletionRefusable == delInstance.is_superuser \/ delInstance._deletion_protected

\* C26: when the delete of a superuser or protected account has returned,
\* it was refused with PermissionDenied and the tables are as they were
\* before the call: same messages with the same contents, same
\* notifications, same history entries, same deletion log; with and without
\* a transaction of the caller.
C26_RefusedDeletionLeavesData ==
    (delPc = "returned" /\ DeletionRefusable) =>
        /\ delExc = "PermissionDenied"
        /\ delDepth = 0
        /\ delDb.users = delDb0.users
        /\ delDb.messages = delDb0.messages
        /\ delDb.notifications = delDb0.notifications
        /\ delDb.histories = delDb0.histories
        /\ delDb.deletion_log = delDb0.deletion_log

\* a refused delete without transaction of the caller has returned, in a
\* database where the user had messages, notifications and history entries
\* and another message mentioned the user
C26_Witness ==
    /\ delPc = "returned"
    /\ DeletionRefusable
    /\ ~delWrapped
    /\ delExc = "PermissionDenied"
    /\ DOMAIN delDb0.messages = 1..MaxDelMessages
    /\ \E i \in 1..Len(delDb.notifications) : delDb.notifications[i].user = "alice"
    /\ \E i \in 1..Len(delDb.histories) : delDb.histories[i].edited_by = "alice"
    /\ icontains(delDb.messages[3].content, "alice")
    /\ delDb.deletion_log = << >>

====
